---- MODULE Spec2Model ----
(***************************************************************************)
(* SignalSlice: the dashboard process of src/app.py (scheduler thread,     *)
(* manual scan threads, command handlers), the scan cycle                  *)
(* run_scanner_cycle, the snapshot file written by scrape_current_hour     *)
(* and the anomaly detector check_current_anomalies that reads it back.    *)
(*                                                                         *)
(* Index values are kept in hundredths (3.42 is 342): every stored index   *)
(* went through round(x, 2) in validate_index_value.  A value handed to    *)
(* update_*_index is the rational num/den hundredths; rounding a tie is    *)
(* either neighbour, since the float nearest to the tie decides it.        *)
(***************************************************************************)
EXTENDS Integers, Sequences, FiniteSets, TLC

VARIABLES
    pizza_index,      \* dashboard_state['pizza_index'], hundredths
    gay_bar_index,    \* dashboard_state['gay_bar_index'], hundredths
    scan_count,       \* dashboard_state['scan_count']
    anomaly_count,    \* dashboard_state['anomaly_count']
    scanning,         \* dashboard_state['scanning']
    scanner_running,  \* dashboard_state['scanner_running']
    activity_feed,    \* dashboard_state['activity_feed'], newest first
    stop_event,       \* scanner_stop_event.is_set()
    threads,          \* the scheduler and manual scan threads, by slot
    files,            \* data/current_hour_<date>_<hour>.csv, by hour
    hour,             \* the wall clock, in whole hours
    started,          \* scan cycles called or started on a thread so far
    emitted,          \* socketio events published by the latest step
    response,         \* what the latest command handler answered
    call_in,          \* the function called directly by the latest step, with its arguments
    call_out,         \* what that call returned
    calls,            \* direct calls made so far
    pending,          \* start and stop requests received, and those in flight by the line reached
    now               \* the wall clock, seconds past the top of the hour

vars == <<pizza_index, gay_bar_index, scan_count, anomaly_count, scanning,
          scanner_running, activity_feed, stop_event, threads, files, hour,
          started, emitted, response, call_in, call_out, calls, pending, now>>

(***************************************************************************)
(* Bounds                                                                  *)
(***************************************************************************)
MaxThreads == 2
MaxScans == 3
MaxHour == 1
NumRestaurants == 3
NumGayBars == 1
NumSportsBars == 1
MaxRows == 3
MaxCalls == 2
MaxPending == 2
MaxRequests == 3

\* Python's None, and the marker of a raised ValidationError
None == -1
Invalid == -2

BUSYNESS_MIN == 0
BUSYNESS_MAX == 100
ABSOLUTE_THRESHOLD == 90
PIZZA_HIGH_THRESHOLD == 70
BAR_LOW_THRESHOLD == 30
MAX_FEED == 10
INDEX_MAX == 1000
ANOMALY_BOOST == 150
HOUR_SECONDS == 3600
SLEEP_BUFFER == 30
COOLDOWN == 300

VALID_VENUE_TYPES == {"restaurant", "gay_bar", "sports_bar"}
valid_types == {"SCAN", "SCRAPE", "ANALYZE", "ANOMALY", "ERROR", "SYSTEM",
                "INIT", "CONNECT", "PIZZA", "GAYBAR"}
valid_levels == {"normal", "success", "warning", "critical"}

Min(a, b) == IF a < b THEN a ELSE b
Max(a, b) == IF a > b THEN a ELSE b

RECURSIVE Sum(_)
Sum(s) == IF s = <<>> THEN 0 ELSE Head(s) + Sum(Tail(s))

RECURSIVE Repeat(_, _)
Repeat(x, n) == IF n = 0 THEN <<>> ELSE <<x>> \o Repeat(x, n - 1)

(***************************************************************************)
(* The snapshot file: csv.DictWriter writes an int as its decimal digits   *)
(* and None as the empty cell; the detector parses the cell back.          *)
(***************************************************************************)
RECURSIVE FormatInt(_)
FormatInt(n) == IF n < 10 THEN <<n>> ELSE Append(FormatInt(n \div 10), n % 10)

RECURSIVE ParseInt(_)
ParseInt(cell) ==
    IF Len(cell) = 1 THEN cell[1]
    ELSE 10 * ParseInt(SubSeq(cell, 1, Len(cell) - 1)) + cell[Len(cell)]

CsvCell(v) == IF v = None THEN <<>> ELSE FormatInt(v)

CsvRow(d) == [venue_type |-> d.venue_type,
              busyness_percent |-> CsvCell(d.busyness_percent)]

WriteRows(results) == [i \in 1..Len(results) |-> CsvRow(results[i])]

NoFile == [exists |-> FALSE, rows |-> <<>>]

FileOf(results) == [exists |-> TRUE, rows |-> WriteRows(results)]

\* a range test that has no lower limit
check_range_upper(value) == IF value <= BUSYNESS_MAX THEN value ELSE Invalid

\* validation.py lines 52-55
check_range(value) ==
    IF BUSYNESS_MIN <= value /\ value <= BUSYNESS_MAX THEN value ELSE Invalid

\* validate_busyness_percent on an int that is a percentage, or None
validate_busyness_percent(value) ==
    IF value = None THEN None ELSE check_range(value)

\* A Python str is the sequence of its characters.  int(text) accepts an
\* optional sign followed by decimal digits and raises ValueError otherwise.
Digits == <<"0", "1", "2", "3", "4", "5", "6", "7", "8", "9">>

IsDigit(ch) == \E d \in 1..10 : Digits[d] = ch

DigitOf(ch) == (CHOOSE d \in 1..10 : Digits[d] = ch) - 1

IsDecimal(text) == text # <<>> /\ \A i \in 1..Len(text) : IsDigit(text[i])

DecimalOf(text) == ParseInt([i \in 1..Len(text) |-> DigitOf(text[i])])

IsIntLiteral(text) ==
    \/ IsDecimal(text)
    \/ text # <<>> /\ Head(text) \in {"-", "+"} /\ IsDecimal(Tail(text))

int_of_str(text) ==
    IF Head(text) = "-" THEN 0 - DecimalOf(Tail(text))
    ELSE IF Head(text) = "+" THEN DecimalOf(Tail(text))
    ELSE DecimalOf(text)

\* str(n) of an int
str_of_int(n) ==
    LET digits == FormatInt(IF n < 0 THEN 0 - n ELSE n)
        text == [i \in 1..Len(digits) |-> Digits[digits[i] + 1]]
    IN  IF n < 0 THEN <<"-">> \o text ELSE text

\* a Python value: None, an int or float (its number), or a str (its text)
PyValue(kind, number, text) == [kind |-> kind, number |-> number, text |-> text]

\* validate_busyness_percent on any argument x
validate_busyness_value(x) ==
    IF x.kind = "None" THEN None
    ELSE IF x.kind = "str"
    THEN IF x.text = <<>> \/ x.text = <<"N", "o", "n", "e">> THEN None
         ELSE IF IsIntLiteral(x.text) THEN check_range(int_of_str(x.text))
         ELSE Invalid
    ELSE IF x.kind = "int" THEN check_range(x.number)
    ELSE Invalid

\* validate_busyness_percent on a csv cell (a string)
validate_busyness_cell(cell) ==
    IF cell = <<>> THEN None ELSE validate_busyness_percent(ParseInt(cell))

\* an exception that is no ValidationError (TypeError, AttributeError)
Raised == -3

\* validate_hour_24, lines 59-67: int(value) raises ValueError on a text that
\* is no integer, which is turned into ValidationError, and TypeError on None,
\* which is not caught
validate_hour_24(x) ==
    IF x.kind = "None" THEN Raised
    ELSE IF x.kind = "str" /\ ~IsIntLiteral(x.text) THEN Invalid
    ELSE LET hour_24 == IF x.kind = "str" THEN int_of_str(x.text) ELSE x.number
         IN  IF hour_24 \in 0..24 THEN hour_24 ELSE Invalid

\* validate_scraped_data on a record with the fields hour_24, busyness_percent
\* and venue_type, in the order of lines 141-156: the record validated ("ok"),
\* ValidationError ("invalid"), or another exception ("raised")
validate_record(d) ==
    IF validate_hour_24(d.hour_24) = Raised THEN "raised"
    ELSE IF validate_hour_24(d.hour_24) = Invalid THEN "invalid"
    ELSE IF validate_busyness_value(d.busyness_percent) = Invalid THEN "invalid"
    ELSE IF d.venue_type \notin VALID_VENUE_TYPES THEN "invalid"
    ELSE "ok"

\* validate_batch_data, lines 216-236: only ValidationError is caught in the
\* loop; any other exception leaves the function
validate_batch_records(data_list) ==
    IF \E i \in 1..Len(data_list) : validate_record(data_list[i]) = "raised"
    THEN [raised |-> TRUE, validated_records |-> <<>>]
    ELSE [raised |-> FALSE,
          validated_records |->
              SelectSeq(data_list, LAMBDA d : validate_record(d) = "ok")]

(***************************************************************************)
(* script/anomalyDetect.py                                                 *)
(***************************************************************************)
NoRows == [pizza_data |-> <<>>, bar_data |-> <<>>, absolute_anomalies |-> <<>>]

\* a turn of the loop whose absolute test is busyness > ABSOLUTE_THRESHOLD
read_row_above(acc, row) ==
    LET busyness == validate_busyness_cell(row.busyness_percent)
    IN  IF row.busyness_percent = <<>> THEN acc
        ELSE IF busyness = None \/ busyness = Invalid THEN acc
        ELSE IF row.venue_type = "restaurant"
             THEN [acc EXCEPT
                     !.pizza_data = Append(@, busyness),
                     !.absolute_anomalies =
                         IF busyness > ABSOLUTE_THRESHOLD
                         THEN Append(@, busyness) ELSE @]
             ELSE [acc EXCEPT !.bar_data = Append(@, busyness)]

\* one turn of the loop over the rows of the snapshot
read_row(acc, row) ==
    LET busyness == validate_busyness_cell(row.busyness_percent)
    IN  IF row.busyness_percent = <<>> THEN acc
        ELSE IF busyness = None \/ busyness = Invalid THEN acc
        ELSE IF row.venue_type = "restaurant"
             THEN [acc EXCEPT
                     !.pizza_data = Append(@, busyness),
                     !.absolute_anomalies =
                         IF busyness >= ABSOLUTE_THRESHOLD
                         THEN Append(@, busyness) ELSE @]
             ELSE [acc EXCEPT !.bar_data = Append(@, busyness)]

RECURSIVE read_rows(_, _)
read_rows(acc, rows) ==
    IF rows = <<>> THEN acc ELSE read_rows(read_row(acc, Head(rows)), Tail(rows))

\* pizza_avg >= PIZZA_HIGH_THRESHOLD, with pizza_avg = 0 when there is no row
is_pizza_high(pizza_data) ==
    IF pizza_data = <<>> THEN 0 >= PIZZA_HIGH_THRESHOLD
    ELSE Sum(pizza_data) >= PIZZA_HIGH_THRESHOLD * Len(pizza_data)

\* a bar test that is bar_avg < BAR_LOW_THRESHOLD
is_bar_low_below(bar_data) == Sum(bar_data) < BAR_LOW_THRESHOLD * Len(bar_data)

\* bar_avg <= BAR_LOW_THRESHOLD, for a bar_avg that is not None
is_bar_low(bar_data) == Sum(bar_data) <= BAR_LOW_THRESHOLD * Len(bar_data)

\* a verdict that wants both rules to fire
check_rows_both(rows) ==
    LET acc == read_rows(NoRows, rows)
        absolute == acc.absolute_anomalies # <<>>
        divergence == /\ acc.bar_data # <<>>
                      /\ is_pizza_high(acc.pizza_data)
                      /\ is_bar_low(acc.bar_data)
    IN  [pizza_data |-> acc.pizza_data,
         bar_data |-> acc.bar_data,
         absolute_anomalies |-> acc.absolute_anomalies,
         absolute |-> absolute,
         divergence |-> divergence,
         anomalies_found |-> absolute /\ divergence]

\* the verdict on the rows of an existing snapshot file, with the two rules
check_rows(rows) ==
    LET acc == read_rows(NoRows, rows)
        absolute == acc.absolute_anomalies # <<>>
        divergence == /\ acc.bar_data # <<>>
                      /\ is_pizza_high(acc.pizza_data)
                      /\ is_bar_low(acc.bar_data)
    IN  [pizza_data |-> acc.pizza_data,
         bar_data |-> acc.bar_data,
         absolute_anomalies |-> acc.absolute_anomalies,
         absolute |-> absolute,
         divergence |-> divergence,
         anomalies_found |-> absolute \/ divergence]

NoSnapshot == [pizza_data |-> <<>>, bar_data |-> <<>>,
               absolute_anomalies |-> <<>>, absolute |-> FALSE,
               divergence |-> FALSE, anomalies_found |-> FALSE]

\* check_current_anomalies on the file of the current hour
check_current_anomalies(file) ==
    IF ~file.exists THEN NoSnapshot ELSE check_rows(file.rows)
(***************************************************************************)
(* app.py: the activity feed and the two indices.  An "io" is the pair of  *)
(* the feed and the events published so far by the step in progress.       *)
(***************************************************************************)
Event(ev, message, value) == [ev |-> ev, message |-> message, value |-> value]

validate_activity_item(activity_type, level) ==
    activity_type \in valid_types /\ level \in valid_levels

add_activity_item(io, activity_type, message, level) ==
    IF validate_activity_item(activity_type, level)
    THEN LET activity == [type |-> activity_type, message |-> message,
                          level |-> level]
             inserted == <<activity>> \o io.feed
         IN  [feed |-> SubSeq(inserted, 1, Min(Len(inserted), MAX_FEED)),
              out |-> Append(io.out, Event("activity_update", message, 0))]
    ELSE io

\* several add_activity_item calls in a row; each item is <<type, message, level>>
RECURSIVE add_items(_, _)
add_items(io, items) ==
    IF items = <<>> THEN io
    ELSE add_items(add_activity_item(io, Head(items)[1], Head(items)[2],
                                     Head(items)[3]), Tail(items))

publish(io, ev, value) == [io EXCEPT !.out = Append(@, Event(ev, "", value))]

\* round(index_value, 2) of the rational num/den hundredths: the nearest
\* hundredth, either neighbour on a tie
Rounded(num, den) ==
    LET q == num \div den
        r == num % den
    IN  IF 2 * r < den THEN {q}
        ELSE IF 2 * r > den THEN {q + 1}
        ELSE {q, q + 1}

\* a validate_index_value without the range test
validate_index_value_unchecked(num, den) == Rounded(num, den)

\* validate_index_value: the values it can return, or {Invalid} when it raises
validate_index_value(num, den) ==
    IF 0 <= num /\ num <= INDEX_MAX * den THEN Rounded(num, den) ELSE {Invalid}

\* an update that stores nothing
update_index_ignored(st, v, name) == st

\* update_pizza_index / update_gay_bar_index on the state st = [index, io],
\* with v one outcome of validate_index_value
update_index(st, v, name) ==
    IF v = Invalid
    THEN [st EXCEPT !.io = add_activity_item(@, "ERROR", name \o "_update_failed",
                                             "critical")]
    ELSE [index |-> v, io |-> publish(st.io, name \o "_update", v)]

update_pizza_index(st, v) == update_index(st, v, "pizza_index")

update_gay_bar_index(st, v) == update_index(st, v, "gay_bar_index")
(***************************************************************************)
(* scraping/gmapsScrape.py: what one call of scrape_current_hour can       *)
(* return.  Each venue of all_urls, in order, either raises (no sample) or *)
(* yields one sample whose busyness_percent is None or a percentage.       *)
(***************************************************************************)
Sample(venue_type, busyness) ==
    [venue_type |-> venue_type, busyness_percent |-> busyness]

RECURSIVE ScrapeOutcomes(_, _)
ScrapeOutcomes(urls, outcomes) ==
    IF urls = <<>> THEN {<<>>}
    ELSE LET rest == ScrapeOutcomes(Tail(urls), outcomes)
         IN  rest \cup {<<Sample(Head(urls), b)>> \o r : b \in outcomes, r \in rest}

all_urls == Repeat("restaurant", NumRestaurants) \o Repeat("gay_bar", NumGayBars)
            \o Repeat("sports_bar", NumSportsBars)

(***************************************************************************)
(* app.py, run_scanner_cycle: validation and the aggregation of the two    *)
(* indices from the validated samples                                      *)
(***************************************************************************)
validate_scraped_data(d) ==
    /\ validate_busyness_percent(d.busyness_percent) # Invalid
    /\ d.venue_type \in VALID_VENUE_TYPES

validate_batch_data(data_list) == SelectSeq(data_list, validate_scraped_data)

OfType(data, venue_type) == SelectSeq(data, LAMBDA d : d.venue_type = venue_type)

WithData(data) == SelectSeq(data, LAMBDA d : d.busyness_percent # None)

busyness_values(data) == [i \in 1..Len(data) |-> data[i].busyness_percent]

\* lines 201-233: the outcomes st = [index, io] of the pizza part, for the
\* restaurant samples and those of them taken to have data
pizza_index_from(st, restaurant_data, restaurant_with_data) ==
    LET values == busyness_values(restaurant_with_data)
    IN  IF restaurant_data = <<>>
        THEN {[st EXCEPT !.io = add_activity_item(@, "WARNING", "no_restaurant_data",
                                                  "warning")]}
        ELSE IF restaurant_with_data = <<>>
        THEN {[st EXCEPT !.io = add_activity_item(@, "INFO", "no_restaurant_busyness",
                                                  "normal")]}
        ELSE {[u EXCEPT !.io = add_activity_item(@, "PIZZA", "pizza_index_updated",
                                                 "normal")] :
                u \in {update_pizza_index(st, v) :
                         v \in validate_index_value(10 * Sum(values), Len(values))}}

\* an aggregation that counts a sample without data as 0% busy
aggregate_pizza_none_as_zero(st, scraped_data) ==
    LET restaurant_data == OfType(scraped_data, "restaurant")
    IN  pizza_index_from(st, restaurant_data,
                         [i \in 1..Len(restaurant_data) |->
                            [restaurant_data[i] EXCEPT
                               !.busyness_percent = Max(@, 0)]])

\* lines 196 and 201-204
aggregate_pizza(st, scraped_data) ==
    LET restaurant_data == OfType(scraped_data, "restaurant")
    IN  pizza_index_from(st, restaurant_data, WithData(restaurant_data))

\* lines 239-270: the outcomes st = [index, io] of the bar part
bar_index_from(st, combined_bar_data) ==
    LET bars_with_data == WithData(combined_bar_data)
        values == busyness_values(bars_with_data)
    IN  IF combined_bar_data = <<>>
        THEN {[st EXCEPT !.io = add_activity_item(@, "GAYBAR", "no_bar_data",
                                                  "warning")]}
        ELSE IF bars_with_data = <<>>
        THEN {[st EXCEPT !.io = add_activity_item(@, "INFO", "no_bar_busyness",
                                                  "normal")]}
        ELSE {[u EXCEPT !.io = add_activity_item(@, "GAYBAR", "bar_index_updated",
                                                 "normal")] :
                u \in {update_gay_bar_index(st, v) :
                         v \in validate_index_value(
                                   INDEX_MAX * Len(values) - 10 * Sum(values),
                                   Len(values))}}

\* an aggregation that leaves the sports bars out
aggregate_bars_gay_only(st, scraped_data) ==
    bar_index_from(st, OfType(scraped_data, "gay_bar"))

\* lines 197 and 235-237: gay bars and sports bars, combined
aggregate_bars(st, scraped_data) ==
    LET gay_bar_data == OfType(scraped_data, "gay_bar")
        sports_bar_data == OfType(scraped_data, "sports_bar")
    IN  bar_index_from(st, gay_bar_data \o sports_bar_data)
(***************************************************************************)
(* Threads.  A slot holds a scheduler thread (hourly_scanner), a manual    *)
(* scan thread (run_scanner_cycle), or nothing.  pc is the thread's        *)
(* position; anomalies_found, current_time, count, sleep_from, sleep_time  *)
(* and notified are its locals, remaining is what is left of the timeout   *)
(* of its wait, and snapshot is the file its scrape has written, kept      *)
(* until its detector has run.  The process of scheduler.py, when it is    *)
(* the program that runs, holds slot 1 with kind "main".  A scan cycle     *)
(* takes four steps, cut where another thread's step in between changes    *)
(* what the cycle does: before the scrape                                  *)
(* returns, before the detector reads the snapshot, and before the verdict *)
(* is applied.                                                             *)
(***************************************************************************)
Slots == 1..MaxThreads
Hours == 0..MaxHour

Idle == [kind |-> "none", pc |-> "idle", anomalies_found |-> FALSE,
         current_time |-> 0, count |-> 0, sleep_from |-> 0, notified |-> FALSE,
         snapshot |-> NoFile, sleep_time |-> 0, remaining |-> 0]

NewThread(kind, pc) == [Idle EXCEPT !.kind = kind, !.pc = pc]

ScanPcs == {"start", "begin", "scraping", "detect", "apply"}

\* the thread was started on run_scanner_cycle, or called it, and the cycle
\* has not returned
InScan(t) == threads[t].pc \in ScanPcs

FreeSlots == {t \in Slots : threads[t].kind = "none"}

FreeSlot == CHOOSE t \in FreeSlots : \A u \in FreeSlots : t <= u

\* a scheduler thread that ends with its scan cycle
AfterScan_ends(th) == Idle

\* the thread after its run_scanner_cycle returned
AfterScan(th) ==
    IF th.kind = "manual" THEN Idle ELSE NewThread("scheduler", "loop")

NoIo == [feed |-> activity_feed, out |-> <<>>]

\* the rows before the sample that writerows refuses: every proper prefix of
\* a result
Prefixes(candidates) ==
    UNION {{SubSeq(r, 1, k) : k \in 0..(Len(r) - 1)} : r \in candidates}

\* the scrape results the concurrent specifications draw from
SampleResults ==
    { <<Sample("restaurant", 0), Sample("gay_bar", 100)>>,
      <<Sample("restaurant", 100), Sample("gay_bar", 0)>> }

\* the rows written before the refused sample that they draw from
SampleWritten == {<<Sample("restaurant", 100)>>}

\* hash(str(datetime.now())) % 21 - 10
DriftSteps == {-10, 9}

NoAnswer == [op |-> "none", status |-> "none"]

NoCall == [fn |-> "none"]

HarnessUnchanged == UNCHANGED <<call_in, call_out, calls, now>>

\* a step that is no command answers nothing
StateUnchanged == response' = NoAnswer /\ HarnessUnchanged /\ UNCHANGED pending

InitItems == << <<"INIT", "scanner_starting", "normal">>,
                <<"INIT", "initial_scan", "normal">> >>

BeginItems == << <<"SCAN", "scan_start", "normal">>,
                 <<"SCRAPE", "scraping", "normal">>,
                 <<"SCRAPE", "looking_today", "normal">>,
                 <<"SCRAPE", "priority", "normal">> >>

\* app.py lines 168-181 and gmapsScrape.py lines 113-131: the flag is raised,
\* the scrape starts and reads the clock.  A scheduler thread at "start" is at
\* the top of hourly_scanner and adds the two INIT items of lines 355-356 before.
ScanBegin(t) ==
    /\ threads[t].pc \in {"start", "begin"}
    /\ scanning' = TRUE
    /\ LET first == IF threads[t].pc = "start"
                    THEN add_items(NoIo, InitItems) ELSE NoIo
           io == add_items(publish(first, "scanning_start", 0), BeginItems)
       IN  /\ activity_feed' = io.feed
           /\ emitted' = io.out
    /\ threads' = [threads EXCEPT ![t].pc = "scraping", ![t].current_time = hour]
    /\ UNCHANGED <<pizza_index, gay_bar_index, scan_count, anomaly_count,
                   scanner_running, stop_event, files, hour, started>>
    /\ StateUnchanged

\* gmapsScrape.py lines 134-591 and app.py lines 184-270: the venues were
\* visited, the snapshot of the hour read at the start is written, the samples
\* are returned, validated and aggregated into the two indices
ScrapeReturns(t, candidates) ==
    /\ threads[t].pc = "scraping"
    /\ \E r \in candidates :
         LET scraped_data == validate_batch_data(r)
             io == add_items(NoIo, << <<"SCRAPE", "data_saved", "success">>,
                                      <<"SCRAPE", "scraping_completed", "success">> >>)
         IN  \E p \in aggregate_pizza([index |-> pizza_index, io |-> io], scraped_data) :
             \E g \in aggregate_bars([index |-> gay_bar_index, io |-> p.io], scraped_data) :
               /\ files' = [files EXCEPT ![threads[t].current_time] = FileOf(r)]
               /\ pizza_index' = p.index
               /\ gay_bar_index' = g.index
               /\ activity_feed' = g.io.feed
               /\ emitted' = g.io.out
               /\ threads' = [threads EXCEPT ![t].pc = "detect",
                                             ![t].current_time = 0,
                                             ![t].snapshot = FileOf(r)]
    /\ UNCHANGED <<scan_count, anomaly_count, scanning, scanner_running,
                   stop_event, hour, started>>
    /\ StateUnchanged

\* scrape_current_hour raises before it opened the snapshot (the browser
\* cannot be launched); app.py lines 272-275
ScrapeRaises(t) ==
    /\ threads[t].pc = "scraping"
    /\ LET io == add_activity_item(NoIo, "ERROR", "scraping_failed", "critical")
       IN  /\ activity_feed' = io.feed
           /\ emitted' = io.out
    /\ threads' = [threads EXCEPT ![t].pc = "detect", ![t].current_time = 0]
    /\ UNCHANGED <<pizza_index, gay_bar_index, scan_count, anomaly_count,
                   scanning, scanner_running, stop_event, files, hour, started>>
    /\ StateUnchanged

\* gmapsScrape.py lines 331-343 and 581-588: a sample made from a live text
\* indicator carries the keys live_flag and confidence, which are no fieldnames
\* of the snapshot; writerows raises at that row, the rows before it are in the
\* file, and the scrape raises into app.py lines 272-275
ScrapeWriteRaises(t, written) ==
    /\ threads[t].pc = "scraping"
    /\ \E rows \in written :
         /\ files' = [files EXCEPT ![threads[t].current_time] = FileOf(rows)]
         /\ threads' = [threads EXCEPT ![t].pc = "detect", ![t].current_time = 0,
                                       ![t].snapshot = FileOf(rows)]
    /\ LET io == add_activity_item(NoIo, "ERROR", "scraping_failed", "critical")
       IN  /\ activity_feed' = io.feed
           /\ emitted' = io.out
    /\ UNCHANGED <<pizza_index, gay_bar_index, scan_count, anomaly_count,
                   scanning, scanner_running, stop_event, hour, started>>
    /\ StateUnchanged

AnalyzeItems == << <<"ANALYZE", "checking", "normal">>,
                   <<"ANALYZE", "local_time", "normal">>,
                   <<"ANALYZE", "est_time", "normal">>,
                   <<"ANALYZE", "checking_for", "normal">> >>

\* lines 277-285 and the read of line 150: the detector reads the snapshot
\* named by the clock now; update_scan_stats reads scan_count
Detect(t) ==
    /\ threads[t].pc = "detect"
    /\ LET io == add_items(NoIo, AnalyzeItems)
       IN  /\ activity_feed' = io.feed
           /\ emitted' = io.out
    /\ threads' = [threads EXCEPT
                     ![t].pc = "apply",
                     ![t].count = scan_count,
                     ![t].snapshot = NoFile,
                     ![t].anomalies_found =
                         check_current_anomalies(files[hour]).anomalies_found]
    /\ UNCHANGED <<pizza_index, gay_bar_index, scan_count, anomaly_count,
                   scanning, scanner_running, stop_event, files, hour, started>>
    /\ StateUnchanged

\* a handler that leaves the verdict true
anomalies_found_on_error_true == TRUE

\* line 289: the verdict the handler of the detector's failure assigns
anomalies_found_on_error == FALSE

\* lines 286-289: check_current_anomalies raises (the file cannot be read)
DetectRaises(t) ==
    /\ threads[t].pc = "detect"
    /\ LET io == add_activity_item(add_items(NoIo, AnalyzeItems), "ERROR",
                                   "anomaly_check_failed", "critical")
       IN  /\ activity_feed' = io.feed
           /\ emitted' = io.out
    /\ threads' = [threads EXCEPT ![t].pc = "apply", ![t].count = scan_count,
                                  ![t].snapshot = NoFile,
                                  ![t].anomalies_found = anomalies_found_on_error]
    /\ UNCHANGED <<pizza_index, gay_bar_index, scan_count, anomaly_count,
                   scanning, scanner_running, stop_event, files, hour, started>>
    /\ StateUnchanged

\* lines 150-158, the write of scan_count += 1 and the statistics event
update_scan_stats(t, io) ==
    publish(io, "scan_stats_update", threads[t].count + 1)

\* a cycle that returns with the flag still raised
scanning_left_raised == TRUE

\* lines 320 and 347: dashboard_state['scanning'] when the cycle returns
scanning_after_cycle == FALSE

AnomalyItems == << <<"ANOMALY", "live_anomaly", "critical">>,
                   <<"ANOMALY", "unusual_patterns", "critical">>,
                   <<"ANOMALY", "real_time", "critical">> >>

\* lines 320-345
finish(io, pizza, gay_bar) ==
    add_items(publish(publish(publish(io, "pizza_index_update", pizza),
                              "gay_bar_index_update", gay_bar),
                      "scanning_complete", 0),
              << <<"SYSTEM", "scan_completed", "success">>,
                 <<"SYSTEM", "next_scan", "normal">> >>)

\* lines 291-309 and 320-345, the anomaly branch with pizza_index > 0
ApplyBoost(t) ==
    /\ threads[t].pc = "apply"
    /\ threads[t].anomalies_found
    /\ pizza_index # 0
    /\ scan_count' = threads[t].count + 1
    /\ anomaly_count' = anomaly_count + 1
    /\ scanning' = scanning_after_cycle
    /\ LET io == add_items(update_scan_stats(t, NoIo), AnomalyItems)
           new_index == Min(INDEX_MAX, pizza_index + ANOMALY_BOOST)
       IN  \E v \in validate_index_value(new_index, 1) :
             LET u == update_pizza_index([index |-> pizza_index, io |-> io], v)
                 out == finish(publish(u.io, "anomaly_detected", anomaly_count'),
                               u.index, gay_bar_index)
             IN  /\ pizza_index' = u.index
                 /\ activity_feed' = out.feed
                 /\ emitted' = out.out
    /\ threads' = [threads EXCEPT ![t] = AfterScan(threads[t])]
    /\ UNCHANGED <<gay_bar_index, scanner_running, stop_event, files, hour,
                   started>>
    /\ StateUnchanged

\* lines 291-301 and 346-351: with pizza_index = 0 the change_percent of line 301
\* divides by zero, and the handler of the cycle ends the scan
ApplyRaises(t) ==
    /\ threads[t].pc = "apply"
    /\ threads[t].anomalies_found
    /\ pizza_index = 0
    /\ scan_count' = threads[t].count + 1
    /\ anomaly_count' = anomaly_count + 1
    /\ scanning' = scanning_after_cycle
    /\ LET io == publish(add_activity_item(
                             add_items(update_scan_stats(t, NoIo), AnomalyItems),
                             "ERROR", "scanner_error", "critical"),
                         "scanning_complete", 0)
       IN  /\ activity_feed' = io.feed
           /\ emitted' = io.out
    /\ threads' = [threads EXCEPT ![t] = AfterScan(threads[t])]
    /\ UNCHANGED <<pizza_index, gay_bar_index, scanner_running, stop_event,
                   files, hour, started>>
    /\ StateUnchanged

\* lines 291-292, 310-318 and 320-345, the branch without anomaly: base_change
\* is k * 0.005, half a hundredth times k
ApplyDrift(t) ==
    /\ threads[t].pc = "apply"
    /\ ~threads[t].anomalies_found
    /\ scan_count' = threads[t].count + 1
    /\ scanning' = scanning_after_cycle
    /\ LET io == add_items(update_scan_stats(t, NoIo),
                           << <<"ANALYZE", "no_anomalies", "success">>,
                              <<"SCAN", "all_normal", "success">> >>)
       IN  \E k \in DriftSteps :
           \E v \in validate_index_value(
                        Max(0, Min(2 * INDEX_MAX, 2 * pizza_index + k)), 2) :
             LET u == update_pizza_index([index |-> pizza_index, io |-> io], v)
                 out == finish(u.io, u.index, gay_bar_index)
             IN  /\ pizza_index' = u.index
                 /\ activity_feed' = out.feed
                 /\ emitted' = out.out
    /\ threads' = [threads EXCEPT ![t] = AfterScan(threads[t])]
    /\ UNCHANGED <<gay_bar_index, anomaly_count, scanner_running, stop_event,
                   files, hour, started>>
    /\ StateUnchanged

(***************************************************************************)
(* app.py, hourly_scanner                                                  *)
(***************************************************************************)
\* lines 160-164, read at second n of the hour: seconds until the next hour
get_next_hour_start(n) == HOUR_SECONDS - n

\* the threads after d seconds have passed: the waits have d seconds less left
Slept(d) ==
    [t \in Slots |-> [threads[t] EXCEPT !.remaining = Max(@ - d, 0)]]

\* line 388 and the end of the thread
SchedulerExit(t) ==
    /\ LET io == add_activity_item(NoIo, "SYSTEM", "scanner_stopped", "warning")
       IN  /\ activity_feed' = io.feed
           /\ emitted' = io.out
    /\ threads' = [threads EXCEPT ![t] = Idle]

\* lines 361-372: the loop condition holds, the thread goes to sleep
LoopSleep(t) ==
    /\ threads[t].pc = "loop"
    /\ scanner_running /\ ~stop_event
    /\ LET io == add_activity_item(NoIo, "SYSTEM", "standby", "normal")
       IN  /\ activity_feed' = io.feed
           /\ emitted' = io.out
    /\ LET sleep_seconds == get_next_hour_start(now)
           sleep_time == Min(sleep_seconds + SLEEP_BUFFER, HOUR_SECONDS)
       IN  threads' = [threads EXCEPT ![t].pc = "sleep", ![t].sleep_from = hour,
                                     ![t].notified = FALSE,
                                     ![t].sleep_time = sleep_time,
                                     ![t].remaining = sleep_time]
    /\ UNCHANGED <<pizza_index, gay_bar_index, scan_count, anomaly_count,
                   scanning, scanner_running, stop_event, files, hour, started>>
    /\ StateUnchanged

\* line 361 fails: the loop ends
LoopExit(t) ==
    /\ threads[t].pc = "loop"
    /\ ~(scanner_running /\ ~stop_event)
    /\ SchedulerExit(t)
    /\ UNCHANGED <<pizza_index, gay_bar_index, scan_count, anomaly_count,
                   scanning, scanner_running, stop_event, files, hour, started>>
    /\ StateUnchanged

\* lines 372-374: the wait was woken by scanner_stop_event.set()
WakeStopped(t) ==
    /\ threads[t].pc = "sleep"
    /\ threads[t].notified
    /\ SchedulerExit(t)
    /\ UNCHANGED <<pizza_index, gay_bar_index, scan_count, anomaly_count,
                   scanning, scanner_running, stop_event, files, hour, started>>
    /\ StateUnchanged

\* lines 372-379: the wait timed out; the scanner still runs and a new scan
\* cycle is begun
WakeScan(t) ==
    /\ threads[t].pc = "sleep"
    /\ ~threads[t].notified
    /\ threads[t].remaining = 0
    /\ scanner_running /\ ~stop_event
    /\ started < MaxScans
    /\ started' = started + 1
    /\ LET io == add_activity_item(NoIo, "SYSTEM", "interval_reached", "normal")
       IN  /\ activity_feed' = io.feed
           /\ emitted' = io.out
    /\ threads' = [threads EXCEPT ![t].pc = "begin", ![t].sleep_from = 0,
                                  ![t].sleep_time = 0]
    /\ UNCHANGED <<pizza_index, gay_bar_index, scan_count, anomaly_count,
                   scanning, scanner_running, stop_event, files, hour>>
    /\ StateUnchanged

(***************************************************************************)
(* app.py, the command handlers                                            *)
(***************************************************************************)
Answer(op, status) == [op |-> op, status |-> status]

\* /api/trigger_scan (lines 456-472) and the websocket manual_scan (524-538)
TriggerScan(op) ==
    /\ IF scanning
       THEN /\ response' = Answer(op, "conflict")
            /\ emitted' = IF op = "manual_scan"
                          THEN <<Event("scan_error", "", 0)>> ELSE <<>>
            /\ UNCHANGED <<threads, started>>
       ELSE /\ FreeSlots # {}
            /\ started < MaxScans
            /\ started' = started + 1
            /\ threads' = [threads EXCEPT ![FreeSlot] = NewThread("manual", "begin")]
            /\ response' = Answer(op, "accepted")
            /\ emitted' = <<>>
    /\ UNCHANGED <<pizza_index, gay_bar_index, scan_count, anomaly_count,
                   scanning, scanner_running, activity_feed, stop_event, files,
                   hour, pending>>
    /\ HarnessUnchanged

trigger_manual_scan == TriggerScan("trigger_scan")

handle_manual_scan == TriggerScan("manual_scan")

\* the handlers in flight, past the test of their endpoint
InFlight == pending.start_scanner_endpoint + pending.start_scanner
            + pending.stop_scanner_endpoint

CommandUnchanged ==
    /\ emitted' = <<>>
    /\ UNCHANGED <<pizza_index, gay_bar_index, scan_count, anomaly_count,
                   scanning, activity_feed, files, hour>>
    /\ HarnessUnchanged

\* /api/start_scanner, line 478: the handler reads scanner_running
start_scanner_endpoint ==
    /\ pending.received < MaxRequests
    /\ IF scanner_running
       THEN /\ response' = Answer("start_scanner", "conflict")
            /\ pending' = [pending EXCEPT !.received = @ + 1]
       ELSE /\ InFlight < MaxPending
            /\ pending' = [pending EXCEPT !.start_scanner_endpoint = @ + 1,
                                          !.received = @ + 1]
            /\ response' = NoAnswer
    /\ UNCHANGED <<threads, stop_event, scanner_running, started>>
    /\ CommandUnchanged

\* start_scanner, lines 393-395: it reads scanner_running again; when it
\* returns None the handler answers scanner_started all the same (line 480)
start_scanner ==
    /\ pending.start_scanner_endpoint > 0
    /\ IF scanner_running
       THEN /\ pending' = [pending EXCEPT !.start_scanner_endpoint = @ - 1]
            /\ response' = Answer("start_scanner", "accepted")
       ELSE /\ pending' = [pending EXCEPT !.start_scanner_endpoint = @ - 1,
                                         !.start_scanner = @ + 1]
            /\ response' = NoAnswer
    /\ UNCHANGED <<threads, stop_event, scanner_running, started>>
    /\ CommandUnchanged

\* start_scanner, lines 397-404, and the answer of line 480
start_scanner_thread ==
    /\ pending.start_scanner > 0
    /\ FreeSlots # {}
    /\ started < MaxScans
    /\ started' = started + 1
    /\ pending' = [pending EXCEPT !.start_scanner = @ - 1]
    /\ stop_event' = FALSE
    /\ scanner_running' = TRUE
    /\ threads' = [threads EXCEPT ![FreeSlot] = NewThread("scheduler", "start")]
    /\ response' = Answer("start_scanner", "accepted")
    /\ CommandUnchanged

\* /api/stop_scanner, line 491: the handler reads scanner_running
stop_scanner_endpoint ==
    /\ pending.received < MaxRequests
    /\ IF scanner_running
       THEN /\ InFlight < MaxPending
            /\ pending' = [pending EXCEPT !.stop_scanner_endpoint = @ + 1,
                                          !.received = @ + 1]
            /\ response' = NoAnswer
       ELSE /\ response' = Answer("stop_scanner", "conflict")
            /\ pending' = [pending EXCEPT !.received = @ + 1]
    /\ UNCHANGED <<threads, stop_event, scanner_running, started>>
    /\ CommandUnchanged

\* stop_scanner, lines 407-418, and the answer of line 493: set() wakes
\* every thread waiting on the event
stop_scanner ==
    /\ pending.stop_scanner_endpoint > 0
    /\ pending' = [pending EXCEPT !.stop_scanner_endpoint = @ - 1]
    /\ scanner_running' = FALSE
    /\ stop_event' = TRUE
    /\ threads' = [t \in Slots |->
                     IF threads[t].pc = "sleep"
                     THEN [threads[t] EXCEPT !.notified = TRUE]
                     ELSE threads[t]]
    /\ response' = Answer("stop_scanner", "accepted")
    /\ UNCHANGED started
    /\ CommandUnchanged

\* an hour passes: the wall clock passes the top of an hour
Tick ==
    /\ hour < MaxHour
    /\ hour' = hour + 1
    /\ threads' = Slept(HOUR_SECONDS)
    /\ emitted' = <<>>
    /\ UNCHANGED <<pizza_index, gay_bar_index, scan_count, anomaly_count,
                   scanning, scanner_running, activity_feed, stop_event,
                   files, started>>
    /\ StateUnchanged

\* the moments of the hour at which the clock is looked at
Moments == <<0, 30, 1800>>

\* time passes from one moment to the next, over the top of the hour after
\* the last one
Advance ==
    /\ \E i \in DOMAIN Moments :
          /\ now = Moments[i]
          /\ IF i < Len(Moments)
             THEN /\ now' = Moments[i + 1]
                  /\ threads' = Slept(Moments[i + 1] - now)
                  /\ hour' = hour
             ELSE /\ now' = Moments[1]
                  /\ threads' = Slept(HOUR_SECONDS - now + Moments[1])
                  /\ hour' = (hour + 1) % (MaxHour + 1)
    /\ emitted' = <<>>
    /\ response' = NoAnswer
    /\ UNCHANGED <<pizza_index, gay_bar_index, scan_count, anomaly_count,
                   scanning, scanner_running, activity_feed, stop_event,
                   files, started, call_in, call_out, calls, pending>>

(***************************************************************************)
(* scheduler.py: the standalone scheduler.  hourly_scan scrapes and runs   *)
(* the detector inside one try statement that catches every Exception.     *)
(***************************************************************************)
\* lines 58-79: the scrape writes its snapshot or raises; either way the
\* function returns
hourly_scan(t, candidates) ==
    /\ threads[t].pc = "main_scan"
    /\ \/ \E r \in candidates : files' = [files EXCEPT ![hour] = FileOf(r)]
       \/ UNCHANGED files
    /\ threads' = [threads EXCEPT ![t].pc = "main_loop"]
    /\ emitted' = <<>>
    /\ UNCHANGED <<pizza_index, gay_bar_index, scan_count, anomaly_count,
                   scanning, scanner_running, activity_feed, stop_event,
                   hour, started>>
    /\ StateUnchanged

\* lines 88-97: time.sleep(sleep_seconds + 30)
MainSleep(t) ==
    /\ threads[t].pc = "main_loop"
    /\ LET sleep_seconds == get_next_hour_start(now)
       IN  threads' = [threads EXCEPT ![t].pc = "main_sleep",
                                     ![t].sleep_from = hour,
                                     ![t].sleep_time = sleep_seconds + SLEEP_BUFFER,
                                     ![t].remaining = sleep_seconds + SLEEP_BUFFER]
    /\ emitted' = <<>>
    /\ UNCHANGED <<pizza_index, gay_bar_index, scan_count, anomaly_count,
                   scanning, scanner_running, activity_feed, stop_event,
                   files, hour, started>>
    /\ StateUnchanged

\* lines 97-99: the sleep is over, hourly_scan is called
MainWake(t) ==
    /\ threads[t].pc = "main_sleep"
    /\ threads[t].remaining = 0
    /\ started < MaxScans
    /\ started' = started + 1
    /\ threads' = [threads EXCEPT ![t].pc = "main_scan", ![t].sleep_from = 0,
                                  ![t].sleep_time = 0]
    /\ emitted' = <<>>
    /\ UNCHANGED <<pizza_index, gay_bar_index, scan_count, anomaly_count,
                   scanning, scanner_running, activity_feed, stop_event,
                   files, hour>>
    /\ StateUnchanged

(***************************************************************************)
(* The process after app.py was loaded: lines 61-71, 541-543 and the       *)
(* start_scanner() of line 546                                             *)
(***************************************************************************)
InitialFeed ==
    add_items([feed |-> <<>>, out |-> <<>>],
              << <<"INIT", "dashboard_initialized", "normal">>,
                 <<"SYSTEM", "monitoring", "normal">>,
                 <<"GAYBAR", "bar_monitoring", "normal">> >>).feed

\* dashboard_state and the files, apart from the feed and the threads
InitDashboard ==
    /\ pizza_index = 342
    /\ gay_bar_index = 658
    /\ scan_count = 0
    /\ anomaly_count = 0
    /\ scanning = FALSE
    /\ scanner_running = TRUE
    /\ stop_event = FALSE
    /\ files = [h \in Hours |-> NoFile]
    /\ hour = 0
    /\ started = 1
    /\ emitted = <<>>
    /\ response = NoAnswer
    /\ pending = [received |-> 0, start_scanner_endpoint |-> 0, start_scanner |-> 0,
                  stop_scanner_endpoint |-> 0]

\* the state of the program, whatever was called directly
InitProgram ==
    /\ InitDashboard
    /\ activity_feed = InitialFeed
    /\ threads = [t \in Slots |->
                    IF t = 1 THEN NewThread("scheduler", "start") ELSE Idle]
    /\ call_out = NoSnapshot
    /\ calls = 0
    /\ now = 0

Init == InitProgram /\ call_in = NoCall

\* run_scanner_cycle on thread t
ScanStep(t, candidates, written) ==
    \/ ScanBegin(t)
    \/ ScrapeReturns(t, candidates)
    \/ ScrapeRaises(t)
    \/ ScrapeWriteRaises(t, written)
    \/ Detect(t)
    \/ DetectRaises(t)
    \/ ApplyBoost(t)
    \/ ApplyRaises(t)
    \/ ApplyDrift(t)

\* the loop of hourly_scanner while the scanner runs
LoopStep(t) == LoopSleep(t) \/ WakeScan(t)

\* the loop of hourly_scanner once the scanner was stopped
StopStep(t) == LoopExit(t) \/ WakeStopped(t)

TriggerStep == trigger_manual_scan \/ handle_manual_scan

SchedulerCommandStep ==
    \/ start_scanner_endpoint
    \/ start_scanner
    \/ start_scanner_thread
    \/ stop_scanner_endpoint
    \/ stop_scanner

Next ==
    \/ \E t \in Slots : ScanStep(t, SampleResults, SampleWritten) \/ LoopStep(t) \/ StopStep(t)
    \/ TriggerStep
    \/ SchedulerCommandStep
    \/ Tick

\* the program while nobody stops or starts the scheduler
NextTrigger ==
    \/ \E t \in Slots : ScanStep(t, SampleResults, SampleWritten) \/ LoopStep(t)
    \/ TriggerStep
    \/ Tick

\* the scrape result drawn from while the scheduler is stopped and started
CommandResults == { <<Sample("restaurant", 0), Sample("gay_bar", 100)>> }

\* the program while nobody triggers a manual scan
NextCommands ==
    \/ \E t \in Slots : ScanStep(t, CommandResults, SampleWritten) \/ LoopStep(t) \/ StopStep(t)
    \/ SchedulerCommandStep
    \/ Tick

Spec == Init /\ [][Next]_vars

SpecTrigger == Init /\ [][NextTrigger]_vars

SpecCommands == Init /\ [][NextCommands]_vars

(***************************************************************************)
(* The scan guard and the scheduler commands                               *)
(***************************************************************************)
\* the threads that executed line 169 of a scan cycle that has not returned
Executing == {t \in Slots : threads[t].pc \in {"scraping", "detect", "apply"}}

\* the step answers a manual scan trigger
IsTrigger == response' # NoAnswer /\ response'.op \in {"trigger_scan", "manual_scan"}

\* C1: at any moment at most one scan cycle is executing, whether it was begun
\* by the scheduler or by a manual trigger
C1_AtMostOneScan == Cardinality(Executing) <= 1

\* C2: a manual trigger issued while a scan cycle executes is answered with a
\* conflict and starts no thread; issued while no scan cycle was begun or
\* started it is accepted and starts exactly one
C2_TriggerRejectedWhileScanning ==
    [][IsTrigger =>
         /\ Executing # {} =>
               response'.status = "conflict" /\ threads' = threads
         /\ (\A t \in Slots : ~InScan(t)) =>
               /\ response'.status = "accepted"
               /\ Cardinality({t \in Slots : threads'[t] # threads[t]}) = 1
               /\ \A t \in Slots : threads'[t] # threads[t] =>
                     threads'[t] = NewThread("manual", "begin")]_vars

\* the threads a step created
Created == {t \in Slots : threads[t].kind = "none" /\ threads'[t].kind # "none"}

\* the step receives a start (stop) request and reads scanner_running
StartIssued ==
    /\ pending'.received # pending.received
    /\ \/ response'.op = "start_scanner"
       \/ pending'.start_scanner_endpoint # pending.start_scanner_endpoint

StopIssued ==
    /\ pending'.received # pending.received
    /\ \/ response'.op = "stop_scanner"
       \/ pending'.stop_scanner_endpoint # pending.stop_scanner_endpoint

\* C3: a start request issued while scanner_running is true, and a stop
\* request issued while it is false, are answered with a conflict and leave
\* the threads, scanner_running and the stop event as they were; every other
\* start request, when it is answered, has set scanner_running and created
\* one scheduler loop, and every other stop request has cleared
\* scanner_running and set the stop event
C3_StartStopConflict ==
    [][/\ StartIssued /\ scanner_running =>
             /\ response' = Answer("start_scanner", "conflict")
             /\ UNCHANGED <<threads, scanner_running, stop_event>>
       /\ StopIssued /\ ~scanner_running =>
             /\ response' = Answer("stop_scanner", "conflict")
             /\ UNCHANGED <<threads, scanner_running, stop_event>>
       /\ response' = Answer("start_scanner", "accepted") =>
             /\ scanner_running'
             /\ Cardinality(Created) = 1
             /\ \A t \in Slots :
                  threads'[t] = IF t \in Created
                                THEN NewThread("scheduler", "start")
                                ELSE threads[t]
       /\ response' = Answer("stop_scanner", "accepted") =>
             ~scanner_running' /\ stop_event']_vars

(***************************************************************************)
(* update_pizza_index and update_gay_bar_index called directly, with       *)
(* values in and out of range: num/den hundredths                          *)
(***************************************************************************)
IndexInputs == {<<-1, 2>>, <<0, 1>>, <<1, 2>>, <<2000, 3>>, <<1000, 1>>, <<2001, 2>>}

CallUpdate(fn, index, io, x) ==
    /\ calls < MaxCalls
    /\ calls' = calls + 1
    /\ call_in' = [fn |-> fn, num |-> x[1], den |-> x[2]]
    /\ activity_feed' = io.feed
    /\ emitted' = io.out
    /\ call_out' = NoSnapshot
    /\ response' = NoAnswer
    /\ UNCHANGED <<scan_count, anomaly_count, scanning, scanner_running,
                   stop_event, threads, files, hour, started, pending, now>>

CallUpdatePizza ==
    \E x \in IndexInputs : \E v \in validate_index_value(x[1], x[2]) :
      LET u == update_pizza_index([index |-> pizza_index, io |-> NoIo], v)
      IN  /\ pizza_index' = u.index
          /\ CallUpdate("update_pizza_index", u.index, u.io, x)
          /\ UNCHANGED gay_bar_index

CallUpdateGayBar ==
    \E x \in IndexInputs : \E v \in validate_index_value(x[1], x[2]) :
      LET u == update_gay_bar_index([index |-> gay_bar_index, io |-> NoIo], v)
      IN  /\ gay_bar_index' = u.index
          /\ CallUpdate("update_gay_bar_index", u.index, u.io, x)
          /\ UNCHANGED pizza_index

\* the scheduler thread alone, scanning at start and after every hour
SchedulerStep(candidates, written) ==
    \/ ScanBegin(1)
    \/ ScrapeReturns(1, candidates)
    \/ ScrapeRaises(1)
    \/ ScrapeWriteRaises(1, written)
    \/ Detect(1)
    \/ DetectRaises(1)
    \/ ApplyBoost(1)
    \/ ApplyRaises(1)
    \/ ApplyDrift(1)
    \/ LoopSleep(1)
    \/ WakeScan(1)
    \/ Tick

NextScheduler == SchedulerStep(SampleResults, SampleWritten)

SpecScheduler == Init /\ [][NextScheduler]_vars

NextIndex == NextScheduler \/ CallUpdatePizza \/ CallUpdateGayBar

SpecIndex == Init /\ [][NextIndex]_vars

\* the value handed in lies outside [0, 10]
OutOfRange(c) == c.num < 0 \/ c.num > 10 * 100 * c.den

IndexInRange(i) == 0 <= i /\ i <= 10 * 100

\* C4: both indices stay within [0, 10], and an update with a value outside
\* that range leaves both indices as they were
C4_IndicesInRange ==
    /\ [](IndexInRange(pizza_index) /\ IndexInRange(gay_bar_index))
    /\ [][calls' # calls /\ OutOfRange(call_in') =>
             UNCHANGED <<pizza_index, gay_bar_index>>]_vars

\* an update of the pizza index above 10 was refused after the index had moved
C4_Witness ==
    /\ call_in.fn = "update_pizza_index"
    /\ OutOfRange(call_in)
    /\ call_in.num > 0
    /\ pizza_index = 667
    /\ activity_feed[1].type = "ERROR"

(***************************************************************************)
(* The scheduler's initial scan cycle alone, over everything the scrape    *)
(* can return for the venues of all_urls                                   *)
(***************************************************************************)
Outcomes == {None, 0, 70, 100}

NextScan ==
    \/ ScanBegin(1)
    \/ ScrapeReturns(1, ScrapeOutcomes(all_urls, Outcomes))
    \/ ScrapeRaises(1)
    \/ ScrapeWriteRaises(1, Prefixes(ScrapeOutcomes(all_urls, Outcomes)))
    \/ Detect(1)
    \/ DetectRaises(1)
    \/ ApplyBoost(1)
    \/ ApplyDrift(1)
    \/ LoopSleep(1)

SpecScan == Init /\ [][NextScan]_vars

\* the step is the return of the scrape of thread t and the aggregation: the
\* snapshot was written and line 193 was reached
Aggregated(t) ==
    /\ threads[t].pc = "scraping"
    /\ threads'[t].pc = "detect"
    /\ files'[threads[t].current_time].exists
    /\ emitted' # <<>>
    /\ emitted'[1].message = "data_saved"

\* the busyness of the samples with data of the given venue types, as the
\* scrape of thread t wrote them
Scraped(t, venue_types) ==
    LET rows == files'[threads[t].current_time].rows
        with_data == SelectSeq(rows, LAMBDA r : /\ r.venue_type \in venue_types
                                                 /\ r.busyness_percent # <<>>)
    IN  [i \in 1..Len(with_data) |-> ParseInt(with_data[i].busyness_percent)]

Bars == {"gay_bar", "sports_bar"}

\* x hundredths is the quotient num/den rounded to the nearest hundredth
IsRounded(x, num, den) == 2 * (x * den - num) <= den /\ 2 * (num - x * den) <= den

\* C5 as stated: after the aggregation pizza_index is the average restaurant
\* busyness divided by 10 and gay_bar_index is 10 minus the average bar
\* busyness divided by 10
C5_ExactAverage ==
    [][\A t \in Slots : Aggregated(t) =>
         LET r == Scraped(t, {"restaurant"})
             b == Scraped(t, Bars)
         IN  /\ r # <<>> => pizza_index' * Len(r) = 10 * Sum(r)
             /\ b # <<>> => gay_bar_index' * Len(b) = 1000 * Len(b) - 10 * Sum(b)
        ]_vars

\* C5: after the aggregation pizza_index is the average restaurant busyness
\* divided by 10, and gay_bar_index is 10 minus the average bar busyness
\* divided by 10, each rounded to two decimals; with every restaurant at 100
\* the pizza_index is exactly 10
C5_RoundedAverage ==
    [][\A t \in Slots : Aggregated(t) =>
         LET r == Scraped(t, {"restaurant"})
             b == Scraped(t, Bars)
         IN  /\ r # <<>> => IsRounded(pizza_index', 10 * Sum(r), Len(r))
             /\ b # <<>> => IsRounded(gay_bar_index', 1000 * Len(b) - 10 * Sum(b),
                                       Len(b))
             /\ (r # <<>> /\ \A i \in 1..Len(r) : r[i] = 100) => pizza_index' = 1000
        ]_vars

\* the scrape returned 100, 100 and 0 for the restaurants and one bar at 70:
\* the indices are 6.67 and 3.0
C5_Witness ==
    /\ threads[1].pc = "detect"
    /\ files[0].exists
    /\ Len(files[0].rows) = 4
    /\ pizza_index = 667
    /\ gay_bar_index = 300

\* C6: when the scrape returned no sample with data for a category, the
\* aggregation leaves the index of that category as it was
C6_NoDataKeepsIndex ==
    [][\A t \in Slots : Aggregated(t) =>
         /\ Scraped(t, {"restaurant"}) = <<>> => pizza_index' = pizza_index
         /\ Scraped(t, Bars) = <<>> => gay_bar_index' = gay_bar_index]_vars

\* the scrape returned three restaurants without data and a bar at 70: the
\* pizza index is still the initial 3.42 and the bar index moved to 3.0
C6_Witness ==
    /\ threads[1].pc = "detect"
    /\ files[0].exists
    /\ Len(SelectSeq(files[0].rows, LAMBDA r : /\ r.venue_type = "restaurant"
                                              /\ r.busyness_percent = <<>>)) = 3
    /\ pizza_index = 342
    /\ gay_bar_index = 300

\* the step added an activity item with one of the messages to the feed and
\* published it
Informed(messages) ==
    /\ \E i \in 1..Len(emitted') :
         emitted'[i].ev = "activity_update" /\ emitted'[i].message \in messages
    /\ \E i \in 1..Len(activity_feed') : activity_feed'[i].message \in messages

\* C7: when the scrape returned no sample with data for a category, the scan
\* adds an activity item about that category to the feed and publishes it
C7_NoDataEventEmitted ==
    [][\A t \in Slots : Aggregated(t) =>
         /\ Scraped(t, {"restaurant"}) = <<>> =>
               Informed({"no_restaurant_data", "no_restaurant_busyness"})
         /\ Scraped(t, Bars) = <<>> =>
               Informed({"no_bar_data", "no_bar_busyness"})]_vars

\* the step applies the verdict of the detector in the scan of thread t
Applied(t) == threads[t].pc = "apply" /\ threads'[t].pc # "apply"

\* C8: when the verdict of the detector is applied to the pizza index p, an
\* anomaly makes it min(10, p + 1.5), and without anomaly it moves by at most
\* 0.05 and stays within [0, 10]; for every p, 0 included
C8_BoostOrDrift ==
    [][\A t \in Slots : Applied(t) =>
         IF threads[t].anomalies_found
         THEN pizza_index' = Min(10 * 100, pizza_index + 150)
         ELSE /\ pizza_index' - pizza_index <= 5
              /\ pizza_index - pizza_index' <= 5
              /\ IndexInRange(pizza_index')]_vars

\* the step is the detector's return in the scan cycle of thread t
Judged(t) ==
    /\ threads[t].pc = "detect"
    /\ threads'[t].pc = "apply"
    /\ emitted'[Len(emitted')].message # "anomaly_check_failed"

\* C12: in every scan cycle the detector reads the snapshot that the scrape
\* of this cycle wrote, and no file when the scrape wrote none; its verdict
\* is the verdict on that snapshot
C12_VerdictOfOwnSnapshot ==
    [][\A t \in Slots : Judged(t) =>
         /\ files[hour] = threads[t].snapshot
         /\ threads'[t].anomalies_found =
               check_current_anomalies(threads[t].snapshot).anomalies_found]_vars

(***************************************************************************)
(* check_current_anomalies called directly on a snapshot file: every file  *)
(* scrape_current_hour can write with up to MaxRows rows, or no file       *)
(***************************************************************************)
DetectValues == {None, 0, 30, 31, 60, 69, 70, 89, 90}

DetectSamples == {Sample(v, b) : v \in VALID_VENUE_TYPES, b \in DetectValues}

DetectFiles ==
    {NoFile} \cup {FileOf(r) : r \in UNION {[1..n -> DetectSamples] : n \in 0..MaxRows}}

InitAnomaly ==
    /\ InitProgram
    /\ call_in \in {[fn |-> "check_current_anomalies", file |-> f] : f \in DetectFiles}

CallDetect ==
    /\ calls = 0
    /\ calls' = 1
    /\ call_out' = check_current_anomalies(call_in.file)
    /\ UNCHANGED <<pizza_index, gay_bar_index, scan_count, anomaly_count, scanning,
                   scanner_running, activity_feed, stop_event, threads, files,
                   hour, started, emitted, response, call_in, pending, now>>

SpecAnomaly == InitAnomaly /\ [][CallDetect]_vars

\* the busyness of the rows with data of the given venue types in the
\* snapshot handed to the detector
Snapshot(venue_types) ==
    LET with_data == SelectSeq(call_in.file.rows,
                               LAMBDA r : /\ r.venue_type \in venue_types
                                          /\ r.busyness_percent # <<>>)
    IN  [i \in 1..Len(with_data) |-> ParseInt(with_data[i].busyness_percent)]

Detected == calls = 1 /\ call_in.file.exists

\* C9: the detector's Rule A fires exactly when some restaurant row of the
\* snapshot is at 90 or more, and then the detector returns true; bar rows
\* and restaurant rows at 89 or less do not make it fire
C9_RuleA ==
    Detected =>
      LET r == Snapshot({"restaurant"})
          fires == \E i \in 1..Len(r) : r[i] >= 90
      IN  /\ call_out.absolute <=> fires
          /\ fires => call_out.anomalies_found

\* a restaurant at 89 and two bars at 90: Rule A does not fire
C9_Witness ==
    /\ Detected
    /\ Snapshot({"restaurant"}) = <<89>>
    /\ Snapshot(Bars) = <<90, 90>>
    /\ ~call_out.absolute

\* C10: the detector's Rule B fires exactly when the snapshot has a bar row
\* with data, the restaurant rows with data average 70 or more, and the bar
\* rows with data (gay bars and sports bars together) average 30 or less
C10_RuleB ==
    Detected =>
      LET r == Snapshot({"restaurant"})
          b == Snapshot(Bars)
      IN  call_out.divergence <=>
            /\ b # <<>>
            /\ r # <<>>
            /\ Sum(r) >= 70 * Len(r)
            /\ Sum(b) <= 30 * Len(b)

\* a restaurant at 70 with a gay bar at 60 and a sports bar at 0: the bars
\* average 30 and Rule B fires
C10_Witness ==
    /\ Detected
    /\ Snapshot({"restaurant"}) = <<70>>
    /\ Snapshot({"gay_bar"}) = <<60>>
    /\ Snapshot({"sports_bar"}) = <<0>>
    /\ call_out.divergence
    /\ ~call_out.absolute

\* Rule A and Rule B as the snapshot handed to the detector satisfies them
RuleA == \E i \in 1..Len(Snapshot({"restaurant"})) : Snapshot({"restaurant"})[i] >= 90

RuleB ==
    LET r == Snapshot({"restaurant"})
        b == Snapshot(Bars)
    IN  b # <<>> /\ r # <<>> /\ Sum(r) >= 70 * Len(r) /\ Sum(b) <= 30 * Len(b)

\* C11: check_current_anomalies returns true exactly when the snapshot file
\* exists and its rows satisfy Rule A or Rule B; it returns false when neither
\* fires, when no row has data and when there is no snapshot file
C11_TrueIffRuleAOrB ==
    calls = 1 =>
      (call_out.anomalies_found <=> (call_in.file.exists /\ (RuleA \/ RuleB)))

\* a snapshot of three rows, none with data: the detector returns false
C11_Witness ==
    /\ calls = 1
    /\ call_in.file.exists
    /\ Len(call_in.file.rows) = 3
    /\ Snapshot(VALID_VENUE_TYPES) = <<>>
    /\ ~call_out.anomalies_found

(***************************************************************************)
(* validate_busyness_percent called directly                               *)
(***************************************************************************)
PercentInts == (0 - 3 .. 103) \cup {0 - 1000, 1000}

PercentInputs ==
    {PyValue("None", 0, <<>>)}
    \cup {PyValue("int", n, <<>>) : n \in PercentInts}
    \cup {PyValue("str", 0, str_of_int(n)) : n \in PercentInts}
    \cup {PyValue("str", 0, t) :
             t \in {<<>>, <<"N", "o", "n", "e">>, <<"x">>, <<"5", "x">>, <<"-">>,
                    <<"0", "0", "7">>, <<"+", "5">>, <<"5", ".", "0">>}}
    \cup {PyValue("float", n, <<>>) : n \in {50, 150}}

InitPercent ==
    /\ InitProgram
    /\ call_in \in {[fn |-> "validate_busyness_percent", value |-> x] : x \in PercentInputs}

CallValidatePercent ==
    /\ calls = 0
    /\ calls' = 1
    /\ call_out' = [value |-> validate_busyness_value(call_in.value)]
    /\ UNCHANGED <<pizza_index, gay_bar_index, scan_count, anomaly_count, scanning,
                   scanner_running, activity_feed, stop_event, threads, files,
                   hour, started, emitted, response, call_in, pending, now>>

SpecPercent == InitPercent /\ [][CallValidatePercent]_vars

\* C13: validate_busyness_percent raises ValidationError for every int, and
\* every string that is the decimal text of an int, outside [0, 100]; for one
\* inside [0, 100] it returns that integer; None is returned as None
C13_PercentValidated ==
    calls = 1 =>
      LET x == call_in.value
      IN  /\ x.kind = "None" => call_out.value = None
          /\ \A n \in PercentInts :
                (x = PyValue("int", n, <<>>) \/ x = PyValue("str", 0, str_of_int(n))) =>
                  call_out.value = IF 0 <= n /\ n <= 100 THEN n ELSE Invalid
          /\ x.kind = "float" /\ (x.number < 0 \/ x.number > 100) =>
                call_out.value = Invalid

\* the string "100" was validated to the integer 100
C13_Witness ==
    /\ calls = 1
    /\ call_in.value = PyValue("str", 0, <<"1", "0", "0">>)
    /\ call_out.value = 100

(***************************************************************************)
(* validate_batch_data called directly on lists of up to MaxRows records   *)
(***************************************************************************)
BatchRecords ==
    {[venue_type |-> v, busyness_percent |-> b, hour_24 |-> h] :
       v \in {"restaurant", "stadium"},
       b \in {PyValue("int", 50, <<>>), PyValue("int", 150, <<>>),
              PyValue("None", 0, <<>>)},
       h \in {PyValue("int", 10, <<>>), PyValue("int", 25, <<>>),
              PyValue("str", 0, <<"x">>), PyValue("None", 0, <<>>)}}

InitBatch ==
    /\ InitProgram
    /\ call_in \in {[fn |-> "validate_batch_data", data_list |-> l] :
                      l \in UNION {[1..n -> BatchRecords] : n \in 0..MaxRows}}

CallValidateBatch ==
    /\ calls = 0
    /\ calls' = 1
    /\ call_out' = validate_batch_records(call_in.data_list)
    /\ UNCHANGED <<pizza_index, gay_bar_index, scan_count, anomaly_count, scanning,
                   scanner_running, activity_feed, stop_event, threads, files,
                   hour, started, emitted, response, call_in, pending, now>>

SpecBatch == InitBatch /\ [][CallValidateBatch]_vars

\* C14: for every list validate_batch_data returns, without raising, exactly
\* the records that pass validation on their own, in their order
C14_BatchNeverAborts ==
    calls = 1 =>
      /\ ~call_out.raised
      /\ call_out.validated_records =
            SelectSeq(call_in.data_list, LAMBDA d : validate_record(d) = "ok")

(***************************************************************************)
(* scraping/gmapsScrape.py, scrape_current_hour: the sample of one venue.  *)
(* A page is what the browser shows for the venue: the set of              *)
(* live_text_patterns its text matches, the aria-labels found by the       *)
(* live_percentage_selectors (percent is the number before "% busy", None  *)
(* when the label has none; at tells whether the label contains "at") and  *)
(* the target entry found in the popular-times bars, if any.               *)
(***************************************************************************)
live_text_patterns ==
    << [text |-> "busier than usual",  flag |-> TRUE,  estimated_percentage |-> 75],
       [text |-> "as busy as it gets", flag |-> TRUE,  estimated_percentage |-> 100],
       [text |-> "not busy",           flag |-> FALSE, estimated_percentage |-> 10],
       [text |-> "not too busy",       flag |-> FALSE, estimated_percentage |-> 15],
       [text |-> "usually not busy",   flag |-> FALSE, estimated_percentage |-> 15],
       [text |-> "plus anime que d'habitude", flag |-> TRUE, estimated_percentage |-> 75],
       [text |-> "tres anime",         flag |-> TRUE,  estimated_percentage |-> 100],
       [text |-> "pas anime",          flag |-> FALSE, estimated_percentage |-> 10],
       [text |-> "peu anime",          flag |-> FALSE, estimated_percentage |-> 15],
       [text |-> "habituellement peu anime", flag |-> FALSE, estimated_percentage |-> 15] >>

\* the first pattern, in the order of the table, that the page text matches
live_text_indicator(page_text) ==
    LET matched == {i \in DOMAIN live_text_patterns : i \in page_text}
    IN  IF matched = {} THEN None
        ELSE CHOOSE i \in matched : \A j \in matched : i <= j

\* the first label with a percentage, without "at", that passes validation
live_percentage(labels) ==
    LET live == SelectSeq(labels, LAMBDA l :
                   /\ l.percent # None
                   /\ ~l.at
                   /\ validate_busyness_percent(l.percent) # Invalid)
    IN  IF live = <<>> THEN None ELSE Head(live).percent

choose_live_text_first(percentage, indicator) ==
    IF indicator # None
    THEN [found |-> TRUE, live_flag |-> TRUE,
          busyness_percent |-> live_text_patterns[indicator].estimated_percentage]
    ELSE IF percentage # None
    THEN [found |-> TRUE, busyness_percent |-> percentage, live_flag |-> FALSE]
    ELSE [found |-> FALSE, busyness_percent |-> None, live_flag |-> FALSE]

choose_live(percentage, indicator) ==
    IF percentage # None
    THEN [found |-> TRUE, busyness_percent |-> percentage, live_flag |-> FALSE]
    ELSE IF indicator # None
    THEN [found |-> TRUE, live_flag |-> TRUE,
          busyness_percent |-> live_text_patterns[indicator].estimated_percentage]
    ELSE [found |-> FALSE, busyness_percent |-> None, live_flag |-> FALSE]

scrape_venue(page) ==
    LET live_data == choose_live(live_percentage(page.labels),
                                 live_text_indicator(page.text))
    IN  IF live_data.found
        THEN [data_type |-> "LIVE", busyness_percent |-> live_data.busyness_percent,
              live_flag |-> live_data.live_flag]
        ELSE IF page.historical.found
        THEN [data_type |-> "HISTORICAL", live_flag |-> FALSE,
              busyness_percent |-> page.historical.busyness_percent]
        ELSE [data_type |-> "NO_DATA", busyness_percent |-> None, live_flag |-> FALSE]

Labels == {[percent |-> p, at |-> a] : p \in {None, 40, 150}, a \in BOOLEAN}

Pages ==
    {[text |-> t, labels |-> l, historical |-> h] :
       t \in {{}, {1}, {2}, {3}, {3, 5}, {1, 4}, {9, 10}},
       l \in UNION {[1..n -> Labels] : n \in 0..2},
       h \in {[found |-> FALSE, busyness_percent |-> None],
              [found |-> TRUE, busyness_percent |-> None],
              [found |-> TRUE, busyness_percent |-> 30]}}

InitVenue ==
    /\ InitProgram
    /\ call_in \in {[fn |-> "scrape_venue", page |-> p] : p \in Pages}

CallScrapeVenue ==
    /\ calls = 0
    /\ calls' = 1
    /\ call_out' = scrape_venue(call_in.page)
    /\ UNCHANGED <<pizza_index, gay_bar_index, scan_count, anomaly_count, scanning,
                   scanner_running, activity_feed, stop_event, threads, files,
                   hour, started, emitted, response, call_in, pending, now>>

SpecVenue == InitVenue /\ [][CallScrapeVenue]_vars

\* the labels of the page that carry a percentage and no time reference,
\* and those of them whose percentage lies in [lo, hi]
LiveLabels(lo, hi) ==
    SelectSeq(call_in.page.labels, LAMBDA l :
       l.percent # None /\ ~l.at /\ lo <= l.percent /\ l.percent <= hi)

\* the sample is chosen below the live percentages: phrase, then historical
\* entry, then NO_DATA without a percentage
BelowPercentage ==
    LET page == call_in.page
    IN  IF page.text # {}
        THEN /\ call_out.data_type = "LIVE"
             /\ \E i \in page.text :
                   /\ \A j \in page.text : i <= j
                   /\ call_out.busyness_percent =
                         live_text_patterns[i].estimated_percentage
        ELSE IF page.historical.found
        THEN /\ call_out.data_type = "HISTORICAL"
             /\ call_out.busyness_percent = page.historical.busyness_percent
        ELSE /\ call_out.data_type = "NO_DATA"
             /\ call_out.busyness_percent = None

\* C15 as stated: a label with a percentage and no time reference makes the
\* sample LIVE with the percentage of such a label, whatever phrase matched;
\* otherwise a phrase, then the historical entry, then NO_DATA decide
C15_LivePercentageFirst ==
    calls = 1 =>
      IF LiveLabels(0, 1000) # <<>>
      THEN /\ call_out.data_type = "LIVE"
           /\ \E k \in DOMAIN LiveLabels(0, 1000) :
                 call_out.busyness_percent = LiveLabels(0, 1000)[k].percent
      ELSE BelowPercentage

\* C15: the first label with a percentage in [0, 100] and no time reference
\* makes the sample LIVE with that percentage, whatever phrase matched; with
\* no such label the first matching phrase makes it LIVE with its estimated
\* percentage, else the historical target entry makes it HISTORICAL, else it
\* is NO_DATA without a percentage
C15_ValidLivePercentageFirst ==
    calls = 1 =>
      IF LiveLabels(BUSYNESS_MIN, BUSYNESS_MAX) # <<>>
      THEN /\ call_out.data_type = "LIVE"
           /\ call_out.busyness_percent =
                 Head(LiveLabels(BUSYNESS_MIN, BUSYNESS_MAX)).percent
      ELSE BelowPercentage

\* a page with the phrase "busier than usual" and a live label of 40%: the
\* sample is LIVE at 40, not at the phrase's 75
C15_Witness ==
    /\ calls = 1
    /\ call_in.page.text = {1}
    /\ call_in.page.labels = <<[percent |-> 40, at |-> TRUE], [percent |-> 40, at |-> FALSE]>>
    /\ call_out.data_type = "LIVE"
    /\ call_out.busyness_percent = 40

(***************************************************************************)
(* scraping/gmapsScrape.py, scrape_current_hour: the loop over all_urls.   *)
(* fetched[i] is what the body of the try does for the i-th venue: Raised  *)
(* when any statement of it raises, else the busyness of its final_data.   *)
(* A venue is named by its position in all_urls.                           *)
(***************************************************************************)
NoResults == [visited |-> <<>>, results |-> <<>>, aborted |-> FALSE]

\* a loop whose try statement encloses the for statement
visit_abort_on_error(acc, url, fetched) ==
    IF acc.aborted THEN acc
    ELSE IF fetched = Raised
    THEN [acc EXCEPT !.visited = Append(@, url), !.aborted = TRUE]
    ELSE [acc EXCEPT !.visited = Append(@, url),
                     !.results = Append(@, [restaurant_url |-> url,
                                            venue_type |-> all_urls[url],
                                            busyness_percent |-> fetched])]

\* one iteration: the try statement is inside the for statement
visit(acc, url, fetched) ==
    IF fetched = Raised
    THEN [acc EXCEPT !.visited = Append(@, url)]
    ELSE [acc EXCEPT !.visited = Append(@, url),
                     !.results = Append(@, [restaurant_url |-> url,
                                            venue_type |-> all_urls[url],
                                            busyness_percent |-> fetched])]

RECURSIVE scrape_loop(_, _, _)
scrape_loop(acc, url, fetched) ==
    IF url > Len(all_urls) THEN acc
    ELSE scrape_loop(visit(acc, url, fetched[url]), url + 1, fetched)

InitVenues ==
    /\ InitProgram
    /\ call_in \in {[fn |-> "scrape_current_hour", fetched |-> f] :
                      f \in [DOMAIN all_urls -> {Raised, None, 70}]}

CallScrapeLoop ==
    /\ calls = 0
    /\ calls' = 1
    /\ call_out' = scrape_loop(NoResults, 1, call_in.fetched)
    /\ UNCHANGED <<pizza_index, gay_bar_index, scan_count, anomaly_count, scanning,
                   scanner_running, activity_feed, stop_event, threads, files,
                   hour, started, emitted, response, call_in, pending, now>>

SpecVenues == InitVenues /\ [][CallScrapeLoop]_vars

Callers == {"hourly_scanner", "run_manual_scan", "handle_connect"}

FeedMessages == <<"first", "second">>

\* a feed of 3, 9 or 10 items: the three of the start and the items of
\* completed scans before them
EarlierFeeds ==
    LET old == <<"old_1", "old_2", "old_3", "old_4", "old_5", "old_6", "old_7">>
    IN  {[i \in 1..n |-> [type |-> "SCAN", message |-> old[i], level |-> "normal"]]
           \o InitialFeed : n \in {0, 6, 7}}

NotCalling == [pc |-> "return", sliced |-> <<>>, message |-> ""]

InitFeed ==
    /\ InitDashboard
    /\ activity_feed \in EarlierFeeds
    /\ threads = [t \in Slots |-> Idle]
    /\ call_in = [c \in Callers |-> NotCalling]
    /\ call_out = [accepted |-> activity_feed]
    /\ calls = 0
    /\ now = 0

FeedUnchanged ==
    UNCHANGED <<pizza_index, gay_bar_index, scan_count, anomaly_count, scanning,
                scanner_running, stop_event, threads, files, hour, started, pending,
                now>>

\* lines 80-94: validation, then dashboard_state['activity_feed'].insert(0, activity)
InsertActivity(c) ==
    /\ call_in[c].pc = "return"
    /\ calls < MaxCalls
    /\ LET activity == [type |-> IF c = "handle_connect" THEN "CONNECT" ELSE "SCAN",
                        message |-> FeedMessages[calls + 1], level |-> "normal"]
       IN  /\ validate_activity_item(activity.type, activity.level)
           /\ activity_feed' = <<activity>> \o activity_feed
           /\ call_out' = [accepted |-> <<activity>> \o call_out.accepted]
           /\ call_in' = [call_in EXCEPT ![c] = [pc |-> "slice", sliced |-> <<>>,
                                                 message |-> activity.message]]
    /\ calls' = calls + 1
    /\ emitted' = <<>>
    /\ response' = NoAnswer
    /\ FeedUnchanged

\* line 95, right-hand side: dashboard_state['activity_feed'][:10]
SliceFeed(c) ==
    /\ call_in[c].pc = "slice"
    /\ call_in' = [call_in EXCEPT ![c].pc = "store",
                      ![c].sliced = SubSeq(activity_feed, 1,
                                           Min(Len(activity_feed), MAX_FEED))]
    /\ emitted' = <<>>
    /\ response' = NoAnswer
    /\ UNCHANGED <<activity_feed, call_out, calls>>
    /\ FeedUnchanged

\* line 95, the assignment, and the emit of line 98
StoreFeed(c) ==
    /\ call_in[c].pc = "store"
    /\ activity_feed' = call_in[c].sliced
    /\ emitted' = <<Event("activity_update", call_in[c].message, 0)>>
    /\ call_in' = [call_in EXCEPT ![c] = NotCalling]
    /\ response' = NoAnswer
    /\ UNCHANGED <<call_out, calls>>
    /\ FeedUnchanged

\* /api/activity_feed and /api/status: the answer carries the bound list;
\* accepted records beside it the items accepted at that moment
get_activity_feed ==
    /\ response' = [op |-> "get_activity_feed", status |-> "200",
                    activity_feed |-> activity_feed, accepted |-> call_out.accepted]
    /\ emitted' = <<>>
    /\ UNCHANGED <<activity_feed, call_in, call_out, calls>>
    /\ FeedUnchanged

NextFeed ==
    \/ \E c \in Callers : InsertActivity(c) \/ SliceFeed(c) \/ StoreFeed(c)
    \/ get_activity_feed

SpecFeed == InitFeed /\ [][NextFeed]_vars

\* C17: the feed a status or activity-feed query returns is the min(n, 10)
\* most recently accepted items, newest first, whatever add_activity_item
\* calls are in progress on other threads
C17_FeedHoldsMostRecent ==
    response.op = "get_activity_feed" =>
      response.activity_feed =
         SubSeq(response.accepted, 1, Min(Len(response.accepted), MAX_FEED))

(***************************************************************************)
(* The scheduler loop against the clock: either app.py runs, with its      *)
(* scheduler thread alone, or scheduler.py runs.  The program is started   *)
(* at any moment of the hour, and no stop is issued.                       *)
(***************************************************************************)
InitLoop ==
    /\ InitDashboard
    /\ activity_feed = InitialFeed
    /\ threads \in {[t \in Slots |-> IF t = 1 THEN NewThread(k[1], k[2]) ELSE Idle] :
                      k \in {<<"scheduler", "start">>, <<"main", "main_scan">>}}
    /\ call_in = NoCall
    /\ call_out = NoSnapshot
    /\ calls = 0
    /\ now \in {Moments[i] : i \in DOMAIN Moments}

LoopThreadStep ==
    \/ ScanBegin(1)
    \/ ScrapeReturns(1, CommandResults)
    \/ ScrapeRaises(1)
    \/ ScrapeWriteRaises(1, SampleWritten)
    \/ Detect(1)
    \/ DetectRaises(1)
    \/ ApplyBoost(1)
    \/ ApplyRaises(1)
    \/ ApplyDrift(1)
    \/ LoopSleep(1)
    \/ WakeScan(1)
    \/ hourly_scan(1, SampleWritten)
    \/ MainSleep(1)
    \/ MainWake(1)

NextLoop == LoopThreadStep \/ Advance

SpecLoop == InitLoop /\ [][NextLoop]_vars

\* the thread is scheduled and time passes
SpecLoopFair == SpecLoop /\ WF_vars(LoopThreadStep) /\ WF_vars(Advance)

\* the positions of a loop: asleep, between a scan and the sleep, in a scan
AsleepPcs == {"sleep", "main_sleep"}

BetweenPcs == {"loop", "main_loop"}

\* C18: the loop scans first, goes to sleep only after a scan has returned,
\* scans again only after the whole timeout has passed, and every timeout is
\* at least the time left to the next top of the hour and at most 3600 s
C18_ScanThenSleepToNextHour ==
    [][\A t \in Slots :
         LET pc == threads[t].pc
             next == threads'[t].pc
         IN  /\ pc = "start" => next \in {"start", "scraping"}
             /\ next \in BetweenPcs /\ pc \notin BetweenPcs =>
                   pc \in ScanPcs \cup {"main_scan"}
             /\ next \in AsleepPcs /\ pc \notin AsleepPcs =>
                   /\ pc \in BetweenPcs
                   /\ threads'[t].sleep_time >= get_next_hour_start(now)
                   /\ threads'[t].sleep_time <= HOUR_SECONDS
             /\ pc \in AsleepPcs /\ next \notin AsleepPcs =>
                   /\ threads[t].remaining = 0
                   /\ next \in {"begin", "main_scan"}]_vars

\* C19: with no stop issued the loop goes on: whatever the earlier scan
\* cycles did (venues without sample, a scrape that raised, a detector that
\* raised, a cycle ended by its handler), the next scan cycle is started
\* eventually, up to the MaxScans cycles that are followed
C19_LoopKeepsScanning ==
    \A k \in 1..(MaxScans - 1) : (started = k) ~> (started = k + 1)

\* the last followed cycle was started by the thread of app.py after a
\* cycle had been ended by its handler
C19_Witness ==
    /\ started = MaxScans
    /\ threads[1].kind = "scheduler"
    /\ threads[1].pc = "begin"
    /\ \E i \in DOMAIN activity_feed : activity_feed[i].message = "scanner_error"

\* C20: after a scan cycle that failed with an unexpected exception (the
\* critical item of its handler is the newest of the feed) the scheduler
\* waits the 5-minute cooldown before it scans again
C20_CooldownThenRetry ==
    [][ /\ threads[1].pc = "loop"
        /\ activity_feed[1].message = "scanner_error"
        /\ threads'[1].pc = "sleep"
        => /\ activity_feed[1].level = "critical"
           /\ threads'[1].sleep_time = COOLDOWN ]_vars

(***************************************************************************)
(* Stopping the scheduler loop                                             *)
(***************************************************************************)
\* the last command that took effect is a stop, and no start is in flight
Stopped ==
    /\ ~scanner_running
    /\ stop_event
    /\ pending.start_scanner_endpoint = 0
    /\ pending.start_scanner = 0

\* thread t is a scheduler loop whose wait was woken by a stop
WokenByStop(t) ==
    /\ threads[t].kind = "scheduler"
    /\ threads[t].pc = "sleep"
    /\ threads[t].notified

\* thread t, a scheduler loop past its initial scan, enters run_scanner_cycle
BeginsAnotherScan(t) ==
    /\ threads[t].kind = "scheduler"
    /\ threads[t].pc = "begin"
    /\ threads'[t].pc = "scraping"

\* the part of C21 about the sleeping loop: a loop whose wait was woken by a
\* stop leaves the wait only to end, with the item 'Scanner stopped' the
\* newest of the feed, and a stop wakes every sleeping loop
C21_SleepingLoopStops ==
    [][/\ \A t \in Slots :
            WokenByStop(t) /\ threads'[t].pc # "sleep" =>
                /\ threads'[t] = Idle
                /\ activity_feed'[1].message = "scanner_stopped"
                /\ started' = started
       /\ \A t \in Slots :
            /\ threads[t].pc = "sleep"
            /\ stop_event' /\ ~stop_event
            => threads'[t].notified]_vars

\* C21: a scheduler loop whose sleep was interrupted by a stop ends with the
\* item 'Scanner stopped' and starts no scan; and once a stop took effect, with
\* no start after it, no scheduler loop begins another scan cycle
C21_StopEndsScheduling ==
    [][/\ \A t \in Slots :
            WokenByStop(t) /\ threads'[t].pc # "sleep" =>
                /\ threads'[t] = Idle
                /\ activity_feed'[1].message = "scanner_stopped"
       /\ Stopped => \A t \in Slots : ~BeginsAnotherScan(t)]_vars


(***************************************************************************)
(* A scan cycle whose anomaly check raises                                 *)
(***************************************************************************)
\* thread t is past the handler of lines 286-289: its item is the newest
DetectorFailed(t) ==
    /\ threads[t].pc = "apply"
    /\ activity_feed[1].message = "anomaly_check_failed"

\* the values of lines 315-316 for the index p: p + k * 0.005 clamped to
\* 0..10 and rounded to the hundredth, for k in -10..10
DriftValues(p) ==
    UNION {Rounded(Max(0, Min(2 * INDEX_MAX, 2 * p + k)), 2) : k \in -10..10}

\* C22: when the anomaly check of a scan cycle raised, the cycle goes on to
\* its end as one without anomaly: anomaly_count stays, no anomaly alert and
\* no anomaly item is published, scan_count grows by one, pizza_index takes a
\* value of the drift branch, the scanning flag is cleared and the cycle
\* returns with scanning_complete published
C22_DetectorFailureIsNoAnomaly ==
    [][\A t \in Slots :
         DetectorFailed(t) /\ threads'[t] # threads[t] =>
             /\ anomaly_count' = anomaly_count
             /\ scan_count' = scan_count + 1
             /\ \A i \in DOMAIN emitted' : emitted'[i].ev # "anomaly_detected"
             /\ \A i \in DOMAIN activity_feed' :
                    activity_feed'[i].type # "ANOMALY"
             /\ pizza_index' \in DriftValues(pizza_index)
             /\ ~scanning'
             /\ ~(threads'[t].pc \in ScanPcs)
             /\ \E i \in DOMAIN emitted' : emitted'[i].ev = "scanning_complete"]_vars

\* a cycle whose anomaly check raised has returned
C22_Witness ==
    /\ threads[1].pc = "loop"
    /\ scan_count = 1
    /\ anomaly_count = 0
    /\ ~scanning
    /\ \E i \in DOMAIN activity_feed :
          activity_feed[i].message = "anomaly_check_failed"
    /\ \E i \in DOMAIN emitted : emitted[i].ev = "scanning_complete"


(***************************************************************************)
(* run_scanner_cycle called twice in a row with the same scrape results    *)
(***************************************************************************)
TwiceOutcomes == {None, 0, 100}

\* the indices held before the first run
PriorPizza == {0, 342}

PriorBars == {658, 1000}

\* lines 193-270: validation and aggregation of the samples r from the
\* indices pizza and gay_bar, with io the feed and the events so far
aggregated_indices(pizza, gay_bar, io, r) ==
    LET scraped_data == validate_batch_data(r)
    IN  UNION {{[pizza_index |-> p.index, gay_bar_index |-> g.index, io |-> g.io] :
                  g \in aggregate_bars([index |-> gay_bar, io |-> p.io], scraped_data)} :
               p \in aggregate_pizza([index |-> pizza, io |-> io], scraped_data)}

\* lines 291-318: the statistics and the boost or the drift, from the index
\* pizza; raised tells that line 301 divided by zero
after_verdict(pizza, io, anomalies_found) ==
    LET stats == publish(io, "scan_stats_update", scan_count + 1)
    IN  IF anomalies_found
        THEN LET items == add_items(stats, AnomalyItems)
             IN  IF pizza = 0
                 THEN {[index |-> pizza, io |-> items, raised |-> TRUE]}
                 ELSE {[index |-> u.index, raised |-> FALSE,
                        io |-> publish(u.io, "anomaly_detected", anomaly_count + 1)] :
                         u \in {update_pizza_index([index |-> pizza, io |-> items], v) :
                                  v \in validate_index_value(
                                          Min(INDEX_MAX, pizza + ANOMALY_BOOST), 1)}}
        ELSE LET items == add_items(stats,
                              << <<"ANALYZE", "no_anomalies", "success">>,
                                 <<"SCAN", "all_normal", "success">> >>)
             IN  {[index |-> u.index, raised |-> FALSE, io |-> u.io] :
                    u \in UNION {{update_pizza_index([index |-> pizza, io |-> items], v) :
                                    v \in validate_index_value(
                                            Max(0, Min(2 * INDEX_MAX, 2 * pizza + k)), 2)} :
                                 k \in DriftSteps}}

InitTwice ==
    /\ pizza_index \in PriorPizza
    /\ gay_bar_index \in PriorBars
    /\ scan_count = 0
    /\ anomaly_count = 0
    /\ scanning = FALSE
    /\ scanner_running = FALSE
    /\ stop_event = FALSE
    /\ files = [h \in Hours |-> NoFile]
    /\ hour = 0
    /\ started = 0
    /\ emitted = <<>>
    /\ response = NoAnswer
    /\ pending = [received |-> 0, start_scanner_endpoint |-> 0, start_scanner |-> 0,
                  stop_scanner_endpoint |-> 0]
    /\ activity_feed = InitialFeed
    /\ threads = [t \in Slots |-> Idle]
    /\ call_in \in {[fn |-> "run_scanner_cycle", results |-> r] :
                      r \in ScrapeOutcomes(all_urls, TwiceOutcomes)}
    /\ call_out = <<>>
    /\ calls = 0
    /\ now = 0

\* run_scanner_cycle, lines 166-351, from its first line to its return, with
\* the scrape returning call_in.results and the detector anomalies_found;
\* call_out keeps the two indices as they were after line 270
CallRunScannerCycle ==
    /\ calls < MaxCalls
    /\ calls' = calls + 1
    /\ started' = started + 1
    /\ files' = [files EXCEPT ![hour] = FileOf(call_in.results)]
    /\ scan_count' = scan_count + 1
    /\ scanning' = FALSE
    /\ LET io == add_items(add_items(publish(NoIo, "scanning_start", 0), BeginItems),
                           << <<"SCRAPE", "data_saved", "success">>,
                              <<"SCRAPE", "scraping_completed", "success">> >>)
       IN  \E a \in aggregated_indices(pizza_index, gay_bar_index, io,
                                       call_in.results) :
           \E anomalies_found \in BOOLEAN :
           \E b \in after_verdict(a.pizza_index, add_items(a.io, AnalyzeItems),
                                  anomalies_found) :
             LET out == IF b.raised
                        THEN publish(add_activity_item(b.io, "ERROR", "scanner_error",
                                                       "critical"),
                                     "scanning_complete", 0)
                        ELSE finish(b.io, b.index, a.gay_bar_index)
             IN  /\ call_out' = Append(call_out,
                                       [pizza_index |-> a.pizza_index,
                                        gay_bar_index |-> a.gay_bar_index])
                 /\ pizza_index' = b.index
                 /\ gay_bar_index' = a.gay_bar_index
                 /\ anomaly_count' = IF anomalies_found THEN anomaly_count + 1
                                     ELSE anomaly_count
                 /\ activity_feed' = out.feed
                 /\ emitted' = out.out
    /\ UNCHANGED <<scanner_running, stop_event, threads, hour, response, call_in,
                   pending, now>>

SpecTwice == InitTwice /\ [][CallRunScannerCycle]_vars

\* the samples r hold a busyness value for a restaurant and for a bar
HasData(r) ==
    /\ WithData(OfType(validate_batch_data(r), "restaurant")) # <<>>
    /\ WithData(OfType(validate_batch_data(r), "gay_bar")
                \o OfType(validate_batch_data(r), "sports_bar")) # <<>>

\* the indices after line 270 that st records are those the samples r give
\* from any indices held before
FromResultsAlone(st, r) ==
    \A p \in PriorPizza, g \in PriorBars :
      \E a \in aggregated_indices(p, g, NoIo, r) :
         a.pizza_index = st.pizza_index /\ a.gay_bar_index = st.gay_bar_index

\* C23: two runs of the scan cycle in a row with the same scrape results leave
\* the same two aggregated indices (taken before the boost or drift of each
\* run), and these depend on the scrape results alone
C23_SameIndicesTwice ==
    calls = 2 =>
        /\ call_out[1] = call_out[2]
        /\ FromResultsAlone(call_out[2], call_in.results)

\* C23 as the source has it: the same holds when the scrape results hold a
\* busyness value for at least one restaurant and for at least one bar
C23_SameIndicesTwiceWithData ==
    calls = 2 /\ HasData(call_in.results) =>
        /\ call_out[1] = call_out[2]
        /\ FromResultsAlone(call_out[2], call_in.results)

\* two runs over results with data, from indices that are not those results'
C23_Witness ==
    /\ calls = 2
    /\ HasData(call_in.results)
    /\ call_out[1] = call_out[2]
    /\ call_out[2].pizza_index = 500
    /\ call_out[2].gay_bar_index = 500
    /\ pizza_index # 500


(***************************************************************************)
(* scraping/gmapsScrape.py, scrape_current_hour: the clock and the target  *)
(* of the scan.  A time is a day, counted as date.toordinal() counts it    *)
(* (day 1 is a Monday), and an hour of that day.                           *)
(***************************************************************************)
weekdays == <<"Monday", "Tuesday", "Wednesday", "Thursday", "Friday",
              "Saturday", "Sunday">>

\* date.weekday(): Monday is 0
weekday_of(day) == (day + 6) % 7

\* strftime('%A')
strftime_A(time) == weekdays[weekday_of(time.day) + 1]

\* a subtraction that leaves the day where it was
minus_no_day(time, days) == time

\* current_time - timedelta(days=days)
minus_days(time, days) == [time EXCEPT !.day = @ - days]

\* lines 116-130: the weekday and the hour the scan looks for
scan_target(current_time) ==
    LET current_weekday == strftime_A(current_time)
        current_hour_24 == current_time.hour
    IN  IF current_hour_24 = 0
        THEN [current_weekday |-> current_weekday,
              current_hour_24 |-> current_hour_24,
              target_weekday |-> strftime_A(minus_days(current_time, 1)),
              target_hour |-> 24]
        ELSE [current_weekday |-> current_weekday,
              current_hour_24 |-> current_hour_24,
              target_weekday |-> current_weekday,
              target_hour |-> current_hour_24]

\* the days the clock is read on, from the Monday that is day 8
MaxDays == 14

Times == [day : 8..(7 + MaxDays), hour : 0..23]

InitTarget ==
    /\ InitProgram
    /\ call_in \in {[fn |-> "scan_target", current_time |-> t] : t \in Times}

CallScanTarget ==
    /\ calls = 0
    /\ calls' = 1
    /\ call_out' = scan_target(call_in.current_time)
    /\ UNCHANGED <<pizza_index, gay_bar_index, scan_count, anomaly_count, scanning,
                   scanner_running, activity_feed, stop_event, threads, files,
                   hour, started, emitted, response, call_in, pending, now>>

SpecTarget == InitTarget /\ [][CallScanTarget]_vars

\* the position of a weekday name in the week, Monday 0
IndexOfWeekday(name) == CHOOSE k \in 0..6 : weekdays[k + 1] = name

\* C24: at hour 0 the scan looks for hour 24 of the weekday before the
\* current one, Sunday when the current one is Monday; at every other hour it
\* looks for the current hour of the current weekday
C24_TargetOfScan ==
    calls = 1 =>
        LET w == weekday_of(call_in.current_time.day)
            h == call_in.current_time.hour
        IN  /\ call_out.current_weekday = weekdays[w + 1]
            /\ h = 0 => /\ call_out.target_hour = 24
                        /\ IndexOfWeekday(call_out.target_weekday)
                             = IF w = 0 THEN 6 ELSE w - 1
            /\ h # 0 => /\ call_out.target_hour = h
                        /\ call_out.target_weekday = weekdays[w + 1]

\* Monday at hour 0: the scan looks for Sunday, hour 24
C24_Witness ==
    /\ calls = 1
    /\ strftime_A(call_in.current_time) = "Monday"
    /\ call_in.current_time.hour = 0
    /\ call_out.target_weekday = "Sunday"
    /\ call_out.target_hour = 24


(***************************************************************************)
(* scraping/gmapsScrape.py, scrape_current_hour: the historical entries of *)
(* a venue page and their day cycles                                       *)
(***************************************************************************)
\* lines 409-439: the entry of the element at position i whose label names
\* the hour hour_24 and the percentage busyness_percent
data_entry(i, hour_24, busyness_percent) ==
    [element_index |-> i, hour_24 |-> hour_24,
     display_hour |-> IF hour_24 = 0 THEN 24 ELSE hour_24,
     busyness_percent |-> busyness_percent]

\* a boundary at every hour 6, the first entry included
starts_cycle_at_every_6(hour_24, current_cycle) == hour_24 = 6

\* line 454: the entry starts a new cycle
starts_cycle(hour_24, current_cycle) == hour_24 = 6 /\ current_cycle # <<>>

\* lines 452-466: the loop over the entries from position idx, with the
\* cycles closed so far and the cycle being filled
RECURSIVE detect_cycles(_, _, _, _)
detect_cycles(all_time_data, idx, day_cycles, current_cycle) ==
    IF idx > Len(all_time_data)
    THEN IF current_cycle # <<>> THEN Append(day_cycles, current_cycle)
         ELSE day_cycles
    ELSE LET data == all_time_data[idx]
         IN  IF starts_cycle(data.hour_24, current_cycle)
             THEN detect_cycles(all_time_data, idx + 1,
                                Append(day_cycles, current_cycle), <<data>>)
             ELSE detect_cycles(all_time_data, idx + 1, day_cycles,
                                Append(current_cycle, data))

\* lines 448-449 and 452-466
day_cycles_of(all_time_data) == detect_cycles(all_time_data, 1, <<>>, <<>>)

MaxEntries == 4

CycleHours == {0, 6, 7}

\* the entries of a page, numbered from 0 in the order of the page
EntriesOf(hours) == [i \in DOMAIN hours |-> data_entry(i - 1, hours[i], 50)]

\* 40 entries with hour 6 at positions 0 and 20 only
TwoDays == EntriesOf([i \in 1..40 |-> (6 + ((i - 1) % 20)) % 24])

ShortPages ==
    UNION {{EntriesOf(h) : h \in [1..n -> CycleHours]} : n \in 1..MaxEntries}

InitCycles ==
    /\ InitProgram
    /\ call_in \in {[fn |-> "day_cycles", all_time_data |-> d] :
                      d \in ShortPages \cup {TwoDays}}

CallDayCycles ==
    /\ calls = 0
    /\ calls' = 1
    /\ call_out' = day_cycles_of(call_in.all_time_data)
    /\ UNCHANGED <<pizza_index, gay_bar_index, scan_count, anomaly_count, scanning,
                   scanner_running, activity_feed, stop_event, threads, files,
                   hour, started, emitted, response, call_in, pending, now>>

SpecCycles == InitCycles /\ [][CallDayCycles]_vars

\* the cycles one after the other
RECURSIVE Concatenated(_)
Concatenated(cycles) ==
    IF cycles = <<>> THEN <<>> ELSE Head(cycles) \o Concatenated(Tail(cycles))

\* the positions, counted from 0, of the first entries of the cycles
Boundaries(cycles) == {cycles[k][1].element_index : k \in DOMAIN cycles}

\* C25: the cycles, one after the other, are the entries in their order;
\* no cycle is empty; a cycle starts at the first entry and at every later
\* entry of hour 6, and nowhere else; the 40 entries with hour 6 at positions
\* 0 and 20 make two cycles with the boundary at position 20
C25_CyclesPartitionEntries ==
    calls = 1 =>
        LET entries == call_in.all_time_data
        IN  /\ Concatenated(call_out) = entries
            /\ \A k \in DOMAIN call_out : call_out[k] # <<>>
            /\ Boundaries(call_out) =
                 {0} \cup {i - 1 : i \in {j \in 2..Len(entries) :
                                            entries[j].hour_24 = 6}}
            /\ entries = TwoDays =>
                 /\ Len(call_out) = 2
                 /\ Boundaries(call_out) = {0, 20}

\* the two cycles of the 40 entries
C25_Witness ==
    /\ calls = 1
    /\ call_in.all_time_data = TwoDays
    /\ Len(call_out) = 2
    /\ Len(call_out[1]) = 20
    /\ call_out[2][1].element_index = 20


(***************************************************************************)
(* scraping/gmapsScrape.py, scrape_current_hour: the weekday of each cycle *)
(* and the historical entry of the target                                  *)
(***************************************************************************)
\* lines 482-495: day_names, by the position of the cycle counted from 1
day_names_of(day_cycles, current_weekday) ==
    LET current_day_index == IndexOfWeekday(current_weekday)
    IN  [k \in DOMAIN day_cycles |->
           weekdays[((current_day_index + (k - 1)) % 7) + 1]]

NoHistorical == [found |-> FALSE, cycle_idx |-> None, element_index |-> None,
                 busyness_percent |-> None]

\* lines 514-528: the first entry of the cycle at the target hour
historical_of_cycle(cycle, cycle_idx, target_hour) ==
    LET hits == {i \in DOMAIN cycle : cycle[i].display_hour = target_hour}
    IN  IF hits = {} THEN NoHistorical
        ELSE LET i == CHOOSE j \in hits : \A h \in hits : j <= h
             IN  [found |-> TRUE, cycle_idx |-> cycle_idx,
                  element_index |-> cycle[i].element_index,
                  busyness_percent |-> cycle[i].busyness_percent]

\* a search that goes on to the later cycles of the same weekday
after_target_cycle_goes_on(result, later) ==
    IF result.found THEN result ELSE later

\* line 529: the break after the first cycle of the target weekday; later
\* is what the cycles after it would give
after_target_cycle(result, later) == result

\* lines 509-529, from the cycle at position k
RECURSIVE find_historical(_, _, _, _, _)
find_historical(day_cycles, day_names, k, target_weekday, target_hour) ==
    IF k > Len(day_cycles) THEN NoHistorical
    ELSE LET later == find_historical(day_cycles, day_names, k + 1,
                                      target_weekday, target_hour)
         IN  IF day_names[k] = target_weekday
             THEN after_target_cycle(
                      historical_of_cycle(day_cycles[k], k - 1, target_hour), later)
             ELSE later

\* lines 444-529 for the entries of a page read at current_time
historical_inference(all_time_data, current_time) ==
    LET target == scan_target(current_time)
        day_cycles == day_cycles_of(all_time_data)
        day_names == day_names_of(day_cycles, target.current_weekday)
    IN  [day_cycles |-> day_cycles, day_names |-> day_names, target |-> target,
         historical_data |-> find_historical(day_cycles, day_names, 1,
                                             target.target_weekday,
                                             target.target_hour)]

\* a day of a page: 6 AM alone, with 9 AM, or with midnight
DayShapes == {<<6>>, <<6, 9>>, <<6, 0>>}

\* the numbers of days on a page
DayCounts == {1, 2, 7, 8}

RECURSIVE HoursOfDays(_)
HoursOfDays(days) ==
    IF days = <<>> THEN <<>> ELSE Head(days) \o HoursOfDays(Tail(days))

WeekPages ==
    UNION {{EntriesOf(HoursOfDays(d)) : d \in [1..n -> DayShapes]} : n \in DayCounts}

\* a Monday, a Wednesday and a Sunday, at midnight and at 9 AM
ScanTimes == [day : {8, 10, 14}, hour : {0, 9}]

InitHistorical ==
    /\ InitProgram
    /\ call_in \in {[fn |-> "historical_inference", all_time_data |-> d,
                     current_time |-> t] : d \in WeekPages, t \in ScanTimes}

CallHistorical ==
    /\ calls = 0
    /\ calls' = 1
    /\ call_out' = historical_inference(call_in.all_time_data, call_in.current_time)
    /\ UNCHANGED <<pizza_index, gay_bar_index, scan_count, anomaly_count, scanning,
                   scanner_running, activity_feed, stop_event, threads, files,
                   hour, started, emitted, response, call_in, pending, now>>

SpecHistorical == InitHistorical /\ [][CallHistorical]_vars

\* the cycles, by position, that carry the label of the target weekday
Labelled == {k \in DOMAIN call_out.day_names :
               call_out.day_names[k] = call_out.target.target_weekday}

\* the cycle at position k has an entry at the target hour
HasTargetHour(k) ==
    \E i \in DOMAIN call_out.day_cycles[k] :
       call_out.day_cycles[k][i].display_hour = call_out.target.target_hour

\* the first cycle is labelled with today's weekday and each later cycle with
\* the weekday after that of the cycle before it, Monday after Sunday
LabelsFollowWeek ==
    \A k \in DOMAIN call_out.day_names :
       IndexOfWeekday(call_out.day_names[k])
         = IF k = 1 THEN weekday_of(call_in.current_time.day)
           ELSE (IndexOfWeekday(call_out.day_names[k - 1]) + 1) % 7

\* the entry returned is one of the cycle at position k, at the target hour
ReturnedFrom(k) ==
    /\ call_out.historical_data.found
    /\ call_out.historical_data.cycle_idx = k - 1
    /\ \E i \in DOMAIN call_out.day_cycles[k] :
          /\ call_out.day_cycles[k][i].display_hour = call_out.target.target_hour
          /\ call_out.day_cycles[k][i].element_index
               = call_out.historical_data.element_index

\* C26: cycle k carries the weekday (today + k) mod 7 of the Monday-first
\* week; the entry returned is at the target hour in a cycle labelled with the
\* target weekday; and an entry is returned whenever any cycle labelled with
\* the target weekday has an entry at the target hour, none otherwise
C26_FoundInAnyLabelledCycle ==
    calls = 1 =>
        /\ LabelsFollowWeek
        /\ call_out.historical_data.found <=> \E k \in Labelled : HasTargetHour(k)
        /\ call_out.historical_data.found => \E k \in Labelled : ReturnedFrom(k)

\* C26 as the source has it: only the first cycle labelled with the target
\* weekday is searched; an entry is returned exactly when that cycle has one
\* at the target hour
C26_FoundInFirstLabelledCycle ==
    calls = 1 =>
        /\ LabelsFollowWeek
        /\ Labelled = {} => ~call_out.historical_data.found
        /\ Labelled # {} =>
             LET first == CHOOSE k \in Labelled : \A j \in Labelled : k <= j
             IN  IF HasTargetHour(first) THEN ReturnedFrom(first)
                 ELSE ~call_out.historical_data.found

\* eight cycles read on a Monday at 9 AM: the first and the eighth are
\* Mondays, only the eighth has an entry at 9, and nothing is returned
C26_Witness ==
    /\ calls = 1
    /\ call_in.current_time = [day |-> 8, hour |-> 9]
    /\ Labelled = {1, 8}
    /\ ~HasTargetHour(1)
    /\ HasTargetHour(8)
    /\ ~call_out.historical_data.found


(***************************************************************************)
(* scraping/gmapsScrape.py, scrape_current_hour: the sample of a venue     *)
(***************************************************************************)
\* lines 313-344, 516-526 and 541-551: the sample appended to results for
\* the page of a venue read at current_time; every branch writes
\* "weekday": target_weekday and "hour_24": current_hour_24
final_data(page, current_time) ==
    LET inference == historical_inference(page.all_time_data, current_time)
        chosen == scrape_venue([text |-> page.text, labels |-> page.labels,
                                historical |->
                                  [found |-> inference.historical_data.found,
                                   busyness_percent |->
                                     inference.historical_data.busyness_percent]])
    IN  [weekday |-> inference.target.target_weekday,
         hour_24 |-> inference.target.current_hour_24,
         busyness_percent |-> chosen.busyness_percent,
         data_type |-> chosen.data_type]

\* a week of days with entries at 6 AM, 9 AM, 11 PM and midnight
WeekPage == EntriesOf(HoursOfDays([k \in 1..7 |-> <<6, 9, 23, 0>>]))

\* pages with and without a live label, a live phrase and historical entries
SamplePages ==
    {[text |-> t, labels |-> l, all_time_data |-> d] :
       t \in {{}, {1}},
       l \in {<<>>, <<[percent |-> 40, at |-> FALSE]>>},
       d \in {<<>>, WeekPage}}

SampleTimes == [day : 8..14, hour : {0, 9, 23}]

InitSample ==
    /\ InitProgram
    /\ call_in \in {[fn |-> "final_data", page |-> p, current_time |-> t] :
                      p \in SamplePages, t \in SampleTimes}

CallFinalData ==
    /\ calls = 0
    /\ calls' = 1
    /\ call_out' = final_data(call_in.page, call_in.current_time)
    /\ UNCHANGED <<pizza_index, gay_bar_index, scan_count, anomaly_count, scanning,
                   scanner_running, activity_feed, stop_event, threads, files,
                   hour, started, emitted, response, call_in, pending, now>>

SpecSample == InitSample /\ [][CallFinalData]_vars

\* the sample carries the weekday the scan looks for and the hour of the clock
SampleRecordsClockHour ==
    calls = 1 =>
        /\ call_out.weekday = scan_target(call_in.current_time).target_weekday
        /\ call_out.hour_24 = call_in.current_time.hour

\* C27: every sample, LIVE, HISTORICAL or NO_DATA, carries the weekday and
\* the hour the scan looks for: at hour 0 the weekday before and hour_24 = 24,
\* never the weekday before with hour_24 = 0
C27_SampleRecordsTarget ==
    calls = 1 =>
        LET w == weekday_of(call_in.current_time.day)
            h == call_in.current_time.hour
        IN  IF h = 0
            THEN /\ call_out.weekday = weekdays[((w + 6) % 7) + 1]
                 /\ call_out.hour_24 = 24
            ELSE /\ call_out.weekday = weekdays[w + 1]
                 /\ call_out.hour_24 = h


(***************************************************************************)
(* Scan cycles of the scheduler and of manual triggers, side by side       *)
(***************************************************************************)
\* the scan cycles the two run side by side
MaxConcurrent == 2

ConcurrentScanStep(t) == ScanStep(t, CommandResults, SampleWritten)

\* a manual scan is triggered while the scheduler's first cycle may be running
TriggerConcurrent == started < MaxConcurrent /\ trigger_manual_scan

NextConcurrent == (\E t \in Slots : ConcurrentScanStep(t)) \/ TriggerConcurrent

SpecConcurrent == Init /\ [][NextConcurrent]_vars

\* every thread gets to run, and each step of a scan cycle returns
SpecConcurrentFair ==
    SpecConcurrent /\ \A t \in Slots : WF_vars(ConcurrentScanStep(t))

\* the cycle of thread t has returned: the flag is down and scanning_complete
\* is published
Finished(t) ==
    /\ ~InScan(t)
    /\ ~scanning
    /\ \E i \in DOMAIN emitted : emitted[i].ev = "scanning_complete"

\* C28: every scan cycle that was started returns, whichever path it takes,
\* with the scanning flag down and scanning_complete published; and whenever
\* no scan cycle is executing the scanning flag is down
C28_ScanCycleFinishes ==
    /\ \A t \in Slots : InScan(t) ~> Finished(t)
    /\ [](Executing = {} => ~scanning)

\* a cycle that failed (the item of its handler is the newest) has returned
\* while no other cycle executes
C28_Witness ==
    /\ scan_count = 2
    /\ Executing = {}
    /\ ~scanning
    /\ activity_feed[1].message = "scanner_error"
    /\ \E i \in DOMAIN emitted : emitted[i].ev = "scanning_complete"


(***************************************************************************)
(* The counters of the scans                                               *)
(***************************************************************************)
\* the scan cycles that have called update_scan_stats: those started that
\* are no longer on their way to it
ReachedStatistics == started - Cardinality({t \in Slots : InScan(t)})

AnomaliesWithinScans == anomaly_count <= scan_count

ScansAllCounted == scan_count = ReachedStatistics

\* C29: in every state anomaly_count is at most scan_count, and scan_count
\* is the number of scan cycles that reached update_scan_stats, whichever way
\* the cycles of the scheduler and of manual triggers interleave
C29_CountersConsistent == AnomaliesWithinScans /\ ScansAllCounted


(***************************************************************************)
(* The scheduler loops that are alive                                      *)
(***************************************************************************)
\* the threads running hourly_scanner
SchedulerLoops == {t \in Slots : threads[t].kind = "scheduler"}

\* those of them that wait for the next hour and were not woken by a stop
SleepingLoops ==
    {t \in SchedulerLoops : threads[t].pc = "sleep" /\ ~threads[t].notified}

\* at most one thread runs hourly_scanner, a loop that finishes its last scan
\* after a stop included
AtMostOneLoopAlive == Cardinality(SchedulerLoops) <= 1

\* C30: whatever start and stop commands were served, at most one scheduler
\* loop goes on with the hourly schedule: a loop that was stopped during a
\* scan ends after that scan and is not waiting for the next hour next to
\* the loop of a later start
C30_AtMostOneLoop == Cardinality(SleepingLoops) <= 1

====
